---------------------------- MODULE Spec2Model ----------------------------
(***************************************************************************)
(* A model of the pilot HTTP engine (package pilot): the accept loop, the  *)
(* dispatcher and the worker pool of Application.Start, the per-request    *)
(* pipeline of handleRequest, the request parser ParseRequest, the routing *)
(* trie of RouteCollection and the response writer HttpResponse.Write.     *)
(*                                                                         *)
(* Go strings and byte slices are sequences of one-character strings, so   *)
(* that scanning, splitting and slicing are modelled byte by byte.         *)
(***************************************************************************)
EXTENDS Integers, Sequences, FiniteSets, TLC

(***************************************************************************)
(* Bounds of the model and constants of the program.                       *)
(***************************************************************************)

\* Workers and clients of the request-pipeline configuration (Spec).
Workers == 2

Clients == 2

\* Workers and clients of the single-request configuration (RequestSpec).
RequestWorkers == 1

RequestClients == 1

\* The longest body declared or sent by the generated POST requests.
MaxBody == 3

\* Workers of the load configuration (LoadSpec); its clients overfill the queues.
LoadWorkers == 1

\* make(chan net.Conn, a.WorkerCount*10)
QueueFactor == 10

StatusOK == 200

StatusNoContent == 204

StatusBadRequest == 400

StatusUnauthorized == 401

StatusForbidden == 403

StatusNotFound == 404

StatusInternalServerError == 500

\* A pointer result is a record with a kind: the nil pointer, a run-time panic
\* raised instead of a result, or the value pointed to.
Nil == "nil"

Panic == "panic"

NilPtr == [kind |-> Nil]

Panicked == [kind |-> Panic]

(***************************************************************************)
(* Bytes and strings.                                                      *)
(***************************************************************************)

SP == " "

CR == "\r"

LF == "\n"

CRLF == <<CR, LF>>

\* s[lo:hi] of Go, with 0-based bounds lo <= hi <= len(s).
Slice(s, lo, hi) == SubSeq(s, lo + 1, hi)

\* bytes.IndexByte / strings.Index for a one-byte separator: 0-based, -1 if absent.
RECURSIVE IndexFrom(_, _, _)
IndexFrom(s, ch, i) ==
    IF i >= Len(s) THEN -1
    ELSE IF s[i + 1] = ch THEN i
    ELSE IndexFrom(s, ch, i + 1)

Index(s, ch) == IndexFrom(s, ch, 0)

\* strings.Split(s, sep) for a one-byte separator: every separator splits.
RECURSIVE Split(_, _)
Split(s, ch) ==
    LET i == Index(s, ch)
    IN  IF i = -1 THEN <<s>>
        ELSE <<Slice(s, 0, i)>> \o Split(Slice(s, i + 1, Len(s)), ch)

Digits == <<"0", "1", "2", "3", "4", "5", "6", "7", "8", "9">>

IsDigit(ch) == \E d \in 1..10 : Digits[d] = ch

DigitValue(ch) == (CHOOSE d \in 1..10 : Digits[d] = ch) - 1

RECURSIVE DecimalValue(_, _)
DecimalValue(s, acc) ==
    IF s = <<>> THEN acc
    ELSE DecimalValue(Tail(s), acc * 10 + DigitValue(Head(s)))

\* strconv.Atoi: an optional sign and at least one digit, nothing else.
\* [err |-> TRUE] gives the value 0, as Atoi does.
Atoi(s) ==
    LET signed == s # <<>> /\ Head(s) \in {"+", "-"}
        digits == IF signed THEN Tail(s) ELSE s
        ok     == digits # <<>> /\ \A i \in 1..Len(digits) : IsDigit(digits[i])
    IN  IF ~ok THEN [n |-> 0, err |-> TRUE]
        ELSE [n   |-> IF signed /\ Head(s) = "-"
                      THEN 0 - DecimalValue(digits, 0)
                      ELSE DecimalValue(digits, 0),
              err |-> FALSE]

\* strconv.Itoa for n >= 0.
RECURSIVE Itoa(_)
Itoa(n) ==
    IF n < 10 THEN <<Digits[n + 1]>>
    ELSE Itoa(n \div 10) \o <<Digits[(n % 10) + 1]>>

\* m[k] of a Go map: the zero value when the key is absent.
MapGet(m, k, zero) == IF k \in DOMAIN m THEN m[k] ELSE zero

\* m[k] = v of a Go map.
MapSet(m, k, v) == [x \in DOMAIN m \cup {k} |-> IF x = k THEN v ELSE m[x]]

EmptyMap == [x \in {} |-> <<>>]

(***************************************************************************)
(* The request parser (ParseRequest).                                      *)
(***************************************************************************)

Get == "GET"

Post == "POST"

Put == "PUT"

Patch == "PATCH"

Delete == "DELETE"

Options == "OPTIONS"

None == "NONE"

\* The zero value of HttpMethod, which a failed map lookup yields.
NoMethod == ""

HttpMethods ==
    (<<"G", "E", "T">> :> Get)
    @@ (<<"P", "O", "S", "T">> :> Post)
    @@ (<<"P", "U", "T">> :> Put)
    @@ (<<"P", "A", "T", "C", "H">> :> Patch)
    @@ (<<"D", "E", "L", "E", "T", "E">> :> Delete)
    @@ (<<"O", "P", "T", "I", "O", "N", "S">> :> Options)
    @@ (<<"N", "O", "N", "E">> :> None)

ContentLengthKey ==
    <<"C", "o", "n", "t", "e", "n", "t", "-", "L", "e", "n", "g", "t", "h">>

\* bufio.Reader.ReadBytes(delim) on the bytes the connection still delivers before
\* it reaches EOF or the read deadline: the bytes up to and including the
\* delimiter, or an error when the stream ends first.
ReadBytes(buf, delim) ==
    LET i == Index(buf, delim)
    IN  IF i = -1
        THEN [err |-> TRUE, bytes |-> buf, rest |-> <<>>]
        ELSE [err |-> FALSE, bytes |-> Slice(buf, 0, i + 1),
              rest |-> Slice(buf, i + 1, Len(buf))]

\* Mutant of ReadFull: a short read is returned without an error.
ReadAvailable(buf, n) ==
    IF Len(buf) < n
    THEN [err |-> FALSE, bytes |-> buf, rest |-> <<>>]
    ELSE [err |-> FALSE, bytes |-> Slice(buf, 0, n), rest |-> Slice(buf, n, Len(buf))]

\* io.ReadFull(bufReader, body) with len(body) = n: an error unless n bytes come.
ReadFull(buf, n) ==
    IF Len(buf) < n
    THEN [err |-> TRUE, bytes |-> buf, rest |-> <<>>]
    ELSE [err |-> FALSE, bytes |-> Slice(buf, 0, n), rest |-> Slice(buf, n, Len(buf))]

\* One header line (its first byte neither '\r' nor '\n'): the last two bytes are
\* cut, the rest is split at every ':', and split[1][1:] is stored under split[0].
\* split[1] panics when there is no ':', and [1:] panics when split[1] is empty.
StoreHeader(headers, bytes) ==
    LET header == Slice(bytes, 0, Len(bytes) - 2)
        split  == Split(header, ":")
    IN  IF Len(split) < 2 THEN [outcome |-> Panic, Headers |-> headers]
        ELSE IF Len(split[2]) < 1 THEN [outcome |-> Panic, Headers |-> headers]
        ELSE [outcome |-> "ok",
              Headers |-> MapSet(headers, split[1], Slice(split[2], 1, Len(split[2])))]

\* The header loop: lines are read up to '\n' until one starts with '\r'; a line
\* that starts with '\n' is skipped.
RECURSIVE ReadHeaders(_, _)
ReadHeaders(buf, headers) ==
    LET line == ReadBytes(buf, LF)
    IN  IF line.err THEN [outcome |-> Nil, Headers |-> headers, rest |-> <<>>]
        ELSE IF line.bytes[1] = CR
        THEN [outcome |-> "ok", Headers |-> headers, rest |-> line.rest]
        ELSE IF line.bytes[1] = LF THEN ReadHeaders(line.rest, headers)
        ELSE LET stored == StoreHeader(headers, line.bytes)
             IN  IF stored.outcome = Panic
                 THEN [outcome |-> Panic, Headers |-> headers, rest |-> line.rest]
                 ELSE ReadHeaders(line.rest, stored.Headers)

\* The body: read when the Content-Length header is not the empty string; Atoi's
\* error is dropped (the length is then 0) and make panics on a negative length.
ReadBody(buf, headers) ==
    LET value == MapGet(headers, ContentLengthKey, <<>>)
    IN  IF value = <<>> THEN [outcome |-> "ok", Body |-> <<>>]
        ELSE LET bodyLength == Atoi(value).n
             IN  IF bodyLength < 0 THEN [outcome |-> Panic, Body |-> <<>>]
                 ELSE LET body == ReadFull(buf, bodyLength)
                      IN  IF body.err THEN [outcome |-> Nil, Body |-> <<>>]
                          ELSE [outcome |-> "ok", Body |-> body.bytes]

\* ParseRequest of the bytes `incoming` delivers: an HttpRequest, the nil
\* pointer, or a panic of the parser.
ParseRequest(incoming) ==
    LET method == ReadBytes(incoming, SP)
    IN  IF method.err THEN NilPtr
        ELSE
        LET path == ReadBytes(method.rest, SP)
        IN  IF path.err THEN NilPtr
            ELSE
            LET line == ReadBytes(path.rest, LF)
            IN  IF line.err THEN NilPtr
                ELSE
                LET rawPath == Slice(path.bytes, 0, Len(path.bytes) - 1)
                    qryIdx  == Index(rawPath, "?")
                    hdrs    == ReadHeaders(line.rest, EmptyMap)
                IN  IF hdrs.outcome # "ok" THEN [kind |-> hdrs.outcome]
                    ELSE
                    LET body == ReadBody(hdrs.rest, hdrs.Headers)
                    IN  IF body.outcome # "ok" THEN [kind |-> body.outcome]
                        ELSE [kind        |-> "HttpRequest",
                              Path        |-> IF qryIdx > -1
                                              THEN Slice(rawPath, 0, qryIdx)
                                              ELSE rawPath,
                              QueryString |-> IF qryIdx > -1
                                              THEN Slice(rawPath, qryIdx + 1, Len(rawPath))
                                              ELSE <<>>,
                              Method      |-> MapGet(HttpMethods,
                                                     Slice(method.bytes, 0,
                                                           Len(method.bytes) - 1),
                                                     NoMethod),
                              Body        |-> body.Body,
                              Headers     |-> hdrs.Headers]

(***************************************************************************)
(* The routing trie (RouteCollection, Route).                              *)
(*                                                                         *)
(* A collection is [Routes, nodes]: nodes is the heap of Route values,     *)
(* Routes the indices of the root nodes, and a node's Children the indices *)
(* of its child nodes; index 0 is the nil *Route.                          *)
(***************************************************************************)

NilRoute == 0

NewRouteCollection == [Routes |-> <<>>, nodes |-> <<>>]

NewEmptyRoute(path) ==
    [PathComponent |-> path, Handlers |-> [m \in {} |-> NilPtr], Children |-> <<>>]

\* The loop of PathListFromString, from (start, end) on.
RECURSIVE PathListLoop(_, _, _, _)
PathListLoop(path, route, start, end) ==
    IF end < Len(path)
    THEN IF path[end + 1] = "/"
         THEN PathListLoop(path, Append(route, Slice(path, start, end)), end + 1, end + 1)
         ELSE PathListLoop(path, route, start, end + 1)
    ELSE IF start # end \/ start = 1
         THEN IF end > Len(path)
              THEN [kind |-> Panic, comps |-> route]
              ELSE [kind |-> "ok", comps |-> Append(route, Slice(path, start, end))]
         ELSE [kind |-> "ok", comps |-> route]

\* Mutant of PathListFromString: the segment after a trailing slash is kept.
RECURSIVE PathListLoopKeepingEmpty(_, _, _, _)
PathListLoopKeepingEmpty(path, route, start, end) ==
    IF end < Len(path)
    THEN IF path[end + 1] = "/"
         THEN PathListLoopKeepingEmpty(path, Append(route, Slice(path, start, end)),
                                       end + 1, end + 1)
         ELSE PathListLoopKeepingEmpty(path, route, start, end + 1)
    ELSE IF end > Len(path)
         THEN [kind |-> Panic, comps |-> route]
         ELSE [kind |-> "ok", comps |-> Append(route, Slice(path, start, end))]

PathListKeepingEmpty(path) == PathListLoopKeepingEmpty(path, <<>>, 1, 1)

\* Mutant of PathListFromString: the first byte of the path is not skipped.
PathListFromZero(path) == PathListLoop(path, <<>>, 0, 1)

\* PathListFromString(path): the components of the path; path[1:1] panics on the
\* empty string.
PathListFromString(path) == PathListLoop(path, <<>>, 1, 1)

\* Mutant of FirstWithComponent: no node is ever found.
FirstWithComponentNever(nodes, list, comp) == NilRoute

\* The first node of `list` whose PathComponent equals comp, or nil.
RECURSIVE FirstWithComponent(_, _, _)
FirstWithComponent(nodes, list, comp) ==
    IF list = <<>> THEN NilRoute
    ELSE IF nodes[Head(list)].PathComponent = comp THEN Head(list)
    ELSE FirstWithComponent(nodes, Tail(list), comp)

\* The loop of FindPath over comps[i], i >= 1 (0-based), from `node` on.
RECURSIVE FindPathLoop(_, _, _, _, _)
FindPathLoop(rc, node, comps, i, create) ==
    IF i >= Len(comps) THEN [kind |-> "ok", rc |-> rc, node |-> node]
    ELSE LET child == FirstWithComponent(rc.nodes, rc.nodes[node].Children, comps[i + 1])
         IN  IF child # NilRoute THEN FindPathLoop(rc, child, comps, i + 1, create)
             ELSE IF create
             THEN LET newRoute == Len(rc.nodes) + 1
                      grown    == [rc EXCEPT
                                     !.nodes = Append(
                                         [@ EXCEPT ![node].Children = Append(@, newRoute)],
                                         NewEmptyRoute(comps[i + 1]))]
                  IN  FindPathLoop(grown, newRoute, comps, i + 1, create)
             ELSE [kind |-> "ok", rc |-> rc, node |-> NilRoute]

\* Mutant of FindPath: a missing root node is appended whatever `create` is.
FindPathAppendingRoot(rc, path, create) ==
    LET list == PathListFromString(path)
    IN  IF list.kind = Panic THEN [kind |-> Panic, rc |-> rc, node |-> NilRoute]
        ELSE LET comps == list.comps
                 root  == FirstWithComponent(rc.nodes, rc.Routes, comps[1])
             IN  IF root # NilRoute THEN FindPathLoop(rc, root, comps, 1, create)
                 ELSE LET newNode == Len(rc.nodes) + 1
                          grown   == [Routes |-> Append(rc.Routes, newNode),
                                      nodes  |-> Append(rc.nodes, NewEmptyRoute(comps[1]))]
                      IN  FindPathLoop(grown, newNode, comps, 1, create)

\* FindPath(path, create): the node of the path (nil when absent and not created)
\* and the collection as FindPath leaves it.
FindPath(rc, path, create) ==
    LET list == PathListFromString(path)
    IN  IF list.kind = Panic THEN [kind |-> Panic, rc |-> rc, node |-> NilRoute]
        ELSE LET comps == list.comps
                 root  == FirstWithComponent(rc.nodes, rc.Routes, comps[1])
             IN  IF root # NilRoute THEN FindPathLoop(rc, root, comps, 1, create)
                 ELSE IF create
                 THEN LET newNode == Len(rc.nodes) + 1
                          grown   == [Routes |-> Append(rc.Routes, newNode),
                                      nodes  |-> Append(rc.nodes, NewEmptyRoute(comps[1]))]
                      IN  FindPathLoop(grown, newNode, comps, 1, create)
                 ELSE [kind |-> "ok", rc |-> rc, node |-> NilRoute]

\* Mutant of AddRouteWithMiddleware: the node's bindings for other methods are lost.
AddRouteClobbering(rc, method, path, fn, middleware) ==
    LET found == FindPath(rc, path, TRUE)
    IN  [found.rc EXCEPT
           !.nodes[found.node].Handlers =
               MapSet([m \in {} |-> NilPtr], method,
                      [kind |-> "RouteHandler", Handler |-> fn,
                       Middleware |-> middleware])]

\* AddRouteWithMiddleware: FindPath(path, true).Handlers[method] = RouteHandler{..}.
\* Routes are registered under non-empty paths.
AddRouteWithMiddleware(rc, method, path, fn, middleware) ==
    LET found == FindPath(rc, path, TRUE)
    IN  [found.rc EXCEPT
           !.nodes[found.node].Handlers =
               MapSet(@, method, [kind |-> "RouteHandler", Handler |-> fn,
                                  Middleware |-> middleware])]

AddRoute(rc, method, path, fn) == AddRouteWithMiddleware(rc, method, path, fn, <<>>)

(***************************************************************************)
(* Responses (HttpResponse) and the response writer.                       *)
(***************************************************************************)

StatusCodeDescriptions ==
    (StatusOK :> <<"O", "K">>)
    @@ (StatusNoContent :> <<"N", "o", SP, "C", "o", "n", "t", "e", "n", "t">>)
    @@ (StatusBadRequest :> <<"B", "a", "d", SP, "R", "e", "q", "u", "e", "s", "t">>)
    @@ (StatusNotFound :> <<"N", "o", "t", SP, "F", "o", "u", "n", "d">>)
    @@ (StatusUnauthorized :> <<"U", "n", "a", "u", "t", "h", "o", "r", "i", "z", "e", "d">>)
    @@ (StatusForbidden :> <<"F", "o", "r", "b", "i", "d", "d", "e", "n">>)
    @@ (StatusInternalServerError :> <<"I", "n", "t", "e", "r", "n", "a", "l", SP, "S", "e", "r", "v",
        "e", "r", SP, "E", "r", "r", "o", "r">>)

ContentTypeKey == <<"C", "o", "n", "t", "e", "n", "t", "-", "T", "y", "p", "e">>

TextPlain == <<"t", "e", "x", "t", "/", "p", "l", "a", "i", "n">>

AllowOriginKey == <<"A", "c", "c", "e", "s", "s", "-", "C", "o", "n", "t", "r", "o",
        "l", "-", "A", "l", "l", "o", "w", "-", "O", "r", "i", "g", "i",
        "n">>

AllowHeadersKey == <<"A", "c", "c", "e", "s", "s", "-", "C", "o", "n", "t", "r", "o",
        "l", "-", "A", "l", "l", "o", "w", "-", "H", "e", "a", "d", "e",
        "r", "s">>

AllowMethodsKey == <<"A", "c", "c", "e", "s", "s", "-", "C", "o", "n", "t", "r", "o",
        "l", "-", "A", "l", "l", "o", "w", "-", "M", "e", "t", "h", "o",
        "d", "s">>

NoWriter == [kind |-> Nil]

NewHttpResponse ==
    [kind |-> "HttpResponse", StatusCode |-> StatusOK, Headers |-> EmptyMap,
     Body |-> <<>>, Writer |-> NoWriter, WriterSize |-> 0]

StringResponse(body) ==
    [NewHttpResponse EXCEPT
       !.StatusCode = StatusOK,
       !.Headers = MapSet(@, ContentTypeKey, TextPlain),
       !.Body = body]

SetHeader(self, key, value) == [self EXCEPT !.Headers = MapSet(@, key, value)]

SetStatus(self, status) == [self EXCEPT !.StatusCode = status]

\* Mutant of ApplyCors: a header the response already has is kept.
ApplyCorsIfAbsent(self, origin, headers, methods) ==
    SetHeader(SetHeader(SetHeader(self, AllowOriginKey,
                                  MapGet(self.Headers, AllowOriginKey, origin)),
                        AllowHeadersKey, MapGet(self.Headers, AllowHeadersKey, headers)),
              AllowMethodsKey, MapGet(self.Headers, AllowMethodsKey, methods))

\* HttpResponse.ApplyCors: the three headers are set, whatever they were.
ApplyCors(self, origin, headers, methods) ==
    SetHeader(SetHeader(SetHeader(self, AllowOriginKey, origin),
                        AllowHeadersKey, headers),
              AllowMethodsKey, methods)

\* Mutant of Write: the body is not written.
WriteWithoutBody(self) ==
    [StatusLine    |-> <<"H", "T", "T", "P", "/", "1", ".", "1", SP>> \o Itoa(self.StatusCode) \o <<SP>>
                         \o MapGet(StatusCodeDescriptions, self.StatusCode, <<>>),
     Headers       |-> self.Headers,
     ContentLength |-> Itoa(Len(self.Body)),
     Body          |-> <<>>]

\* Mutant of Write: the Content-Length is that of Body also when a stream is set.
WriteLengthOfBody(self) ==
    [StatusLine    |-> <<"H", "T", "T", "P", "/", "1", ".", "1", SP>> \o Itoa(self.StatusCode) \o <<SP>>
                         \o MapGet(StatusCodeDescriptions, self.StatusCode, <<>>),
     Headers       |-> self.Headers,
     ContentLength |-> Itoa(Len(self.Body)),
     Body          |-> IF self.Writer.kind # Nil THEN self.Writer.data ELSE self.Body]

\* HttpResponse.Write: what reaches the connection. StatusLine is the first line
\* without its line end, Headers the "Key: Value" lines (written in the map's
\* iteration order), ContentLength the value of the Content-Length line and Body
\* the bytes after the blank line.
Write(self) ==
    [StatusLine    |-> <<"H", "T", "T", "P", "/", "1", ".", "1", SP>> \o Itoa(self.StatusCode) \o <<SP>>
                         \o MapGet(StatusCodeDescriptions, self.StatusCode, <<>>),
     Headers       |-> self.Headers,
     ContentLength |-> IF self.Writer.kind # Nil
                       THEN Itoa(self.WriterSize)
                       ELSE Itoa(Len(self.Body)),
     Body          |-> IF self.Writer.kind # Nil THEN self.Writer.data ELSE self.Body]

\* BufferedResponse(writer, length): a response that streams `data` and declares
\* `length` bytes.
BufferedResponse(data, length) ==
    [NewHttpResponse EXCEPT
       !.Writer = [kind |-> "Reader", data |-> data],
       !.WriterSize = length,
       !.StatusCode = StatusOK]

\* The "Key: Value\r\n" lines of the headers, in the order `order` of the keys.
RECURSIVE HeaderLinesInOrder(_, _)
HeaderLinesInOrder(headers, order) ==
    IF order = <<>> THEN <<>>
    ELSE Head(order) \o <<":", SP>> \o headers[Head(order)] \o CRLF
         \o HeaderLinesInOrder(headers, Tail(order))

\* The bytes HttpResponse.Write puts on the connection, `order` being the order in
\* which the range loop visits the keys of Headers.
WriteBytes(self, order) ==
    LET written == Write(self)
    IN  written.StatusLine \o CRLF
        \o HeaderLinesInOrder(written.Headers, order)
        \o <<"C", "o", "n", "t", "e", "n", "t", "-", "L", "e", "n", "g", "t", "h", ":", SP>> \o written.ContentLength \o CRLF \o CRLF
        \o written.Body

(***************************************************************************)
(* The application: its configuration, its routes and the handlers and     *)
(* middleware the routes are bound to. Handlers and middleware are code of *)
(* the application that uses the engine: each returns one of the responses *)
(* listed for it, or the nil pointer.                                      *)
(***************************************************************************)

HealthPath == <<"/", "h", "e", "a", "l", "t", "h">>

UsersNewPath == <<"/", "u", "s", "e", "r", "s", "/", "n", "e", "w">>

AdminPath == <<"/", "a", "d", "m", "i", "n">>

BodyOK == <<"O", "K">>

BodyDenied == <<"d", "e", "n", "i", "e", "d">>

BodyInvalid == <<"i", "n", "v", "a", "l", "i", "d">>

Body404 == <<"4", "0", "4", SP, "n", "o", "t", SP, "f", "o", "u", "n", "d">>

Body500 == <<"5", "0", "0", SP, "I", "n", "t", "e", "r", "n", "a", "l", SP, "S",
        "e", "r", "v", "e", "r", SP, "E", "r", "r", "o", "r">>

CorsAny == <<"*">>

\* An origin a handler sets on its own response.
OwnOrigin == <<"h", "t", "t", "p", "s", ":", "/", "/", "o", "w", "n">>

CorsMethodList == <<"G", "E", "T", ",", SP, "P", "U", "T", ",", SP, "P", "O", "S", "T",
        ",", SP, "D", "E", "L", "E", "T", "E", ",", SP, "H", "E", "A", "D",
        ",", SP, "P", "A", "T", "C", "H">>

\* The routes the application registers before Start, in this order.
RegisteredRoutes ==
    AddRouteWithMiddleware(
        AddRouteWithMiddleware(
            AddRoute(NewRouteCollection, Get, HealthPath, "healthCheck"),
            Post, UsersNewPath, "createUser", <<"auth", "validate">>),
        Delete, AdminPath, "purge", <<"auth">>)

\* NewInlineApplication, with the worker count of the configuration.
NewInlineApplication(workerCount) ==
    [CorsOrigin  |-> CorsAny,
     CorsHeaders |-> CorsAny,
     CorsMethods |-> CorsMethodList,
     Routes      |-> RegisteredRoutes,
     WorkerCount |-> workerCount]

\* What a middleware may return for a request.
MiddlewareReturns(fn, request) ==
    IF fn = "auth"
    THEN {NilPtr, SetStatus(StringResponse(BodyDenied), StatusUnauthorized)}
    ELSE {NilPtr, SetStatus(StringResponse(BodyInvalid), StatusBadRequest)}

\* What a handler may return for a request.
HandlerReturns(fn, request) ==
    IF fn = "healthCheck" THEN {StringResponse(BodyOK)}
    ELSE IF fn = "createUser"
    THEN {NilPtr, StringResponse(request.Body),
          SetStatus(StringResponse(BodyInvalid), StatusBadRequest)}
    ELSE {NilPtr, SetStatus(StringResponse(<<>>), StatusNoContent),
          SetHeader(SetStatus(StringResponse(<<>>), StatusNoContent),
                    AllowOriginKey, OwnOrigin)}

(***************************************************************************)
(* The byte streams clients send. Each is everything its connection        *)
(* delivers before it reaches EOF or the read deadline.                    *)
(***************************************************************************)

GetHealth == <<"G", "E", "T", SP, "/", "h", "e", "a", "l", "t", "h", SP, "H", "T",
        "T", "P", "/", "1", ".", "1", CR, LF, "H", "o", "s", "t", ":", SP,
        "x", CR, LF, CR, LF>>

GetMissing == <<"G", "E", "T", SP, "/", "m", "i", "s", "s", "i", "n", "g", SP, "H",
        "T", "T", "P", "/", "1", ".", "1", CR, LF, CR, LF>>

OptionsAnything == <<"O", "P", "T", "I", "O", "N", "S", SP, "/", "a", "n", "y", "t",
        "h", "i", "n", "g", SP, "H", "T", "T", "P", "/", "1", ".", "1", CR,
        LF, CR, LF>>

OptionsHealth == <<"O", "P", "T", "I", "O", "N", "S", SP, "/", "h", "e", "a", "l",
        "t", "h", SP, "H", "T", "T", "P", "/", "1", ".", "1", CR, LF, CR,
        LF>>

\* A header line that ends right after its ':'.
HeaderEmptyValue == <<"G", "E", "T", SP, "/", "h", "e", "a", "l", "t", "h", SP, "H", "T", "T", "P", "/", "1", ".", "1", CR, LF, "H", "o", "s", "t", ":", CR, LF, CR, LF>>

\* A Content-Length below zero.
NegativeLength == <<"P", "O", "S", "T", SP, "/", "u", "s", "e", "r", "s", "/", "n", "e", "w", SP, "H", "T", "T", "P", "/", "1", ".", "1", CR, LF, "C", "o", "n", "t", "e", "n", "t", "-", "L", "e", "n", "g", "t", "h", ":", SP, "-", "1", CR, LF, CR, LF>>

\* Two spaces after the method: the path token is empty.
EmptyPath == <<"G", "E", "T", SP, SP, "H", "T", "T", "P", "/", "1", ".", "1", CR, LF, CR, LF>>

\* A method token that is not a key of HttpMethods.
BrewHealth == <<"B", "R", "E", "W", SP, "/", "h", "e", "a", "l", "t", "h", SP, "H", "T", "T", "P", "/", "1", ".", "1", CR, LF, "H", "o", "s", "t", ":", SP, "x", CR, LF, CR, LF>>

\* A node that exists only as the prefix of /users/new.
GetUsers == <<"G", "E", "T", SP, "/", "u", "s", "e", "r", "s", SP, "H", "T", "T",
        "P", "/", "1", ".", "1", CR, LF, CR, LF>>

\* A node with a handler for GET only.
PostHealth == <<"P", "O", "S", "T", SP, "/", "h", "e", "a", "l", "t", "h", SP, "H",
        "T", "T", "P", "/", "1", ".", "1", CR, LF, CR, LF>>

DeleteAdmin == <<"D", "E", "L", "E", "T", "E", SP, "/", "a", "d", "m", "i", "n", SP,
        "H", "T", "T", "P", "/", "1", ".", "1", CR, LF, CR, LF>>

\* The request line and headers of a POST /users/new that declares n body bytes.
PostUsersNew(n) ==
    <<"P", "O", "S", "T", SP, "/", "u", "s", "e", "r", "s", "/", "n",
        "e", "w", SP, "H", "T", "T", "P", "/", "1", ".", "1", CR, LF, "C",
        "o", "n", "t", "e", "n", "t", "-", "L", "e", "n", "g", "t", "h",
        ":", SP>> \o Itoa(n) \o CRLF \o CRLF

BodyBytes == <<"a", "b", "c", "d", "e", "f", "g", "h", "i", "j", "k", "l">>

\* A POST /users/new that declares `declared` body bytes and delivers `sent`.
PostWithBody(declared, sent) == PostUsersNew(declared) \o Slice(BodyBytes, 0, sent)

\* The connection ends inside the request line.
Truncated == <<"G", "E", "T", SP, "/", "h", "e", "a", "l", "t", "h">>

\* A header line without a colon.
HeaderNoColon == <<"G", "E", "T", SP, "/", "h", "e", "a", "l", "t", "h", SP, "H", "T",
        "T", "P", "/", "1", ".", "1", CR, LF, "B", "r", "o", "k", "e", "n",
        CR, LF, CR, LF>>

\* The streams of the request-pipeline configuration: one for each way through
\* handleRequest.
PipelineStreams ==
    {GetHealth, GetMissing, OptionsAnything, PostHealth, Truncated, HeaderNoColon,
     PostWithBody(3, 3)}

\* The streams of the single-request configuration: the above and more requests
\* of each kind.
RequestStreams ==
    PipelineStreams
    \cup {OptionsHealth, GetUsers, DeleteAdmin, PostWithBody(10, 3), BrewHealth}
    \cup {HeaderEmptyValue, NegativeLength, EmptyPath}
    \cup {PostWithBody(declared, sent) : declared \in 0..MaxBody, sent \in 0..MaxBody}

\* The streams of the load configuration.
LoadStreams == {DeleteAdmin}

\* ParseRequest on the bytes of each stream a client may send.
ParsedStreams ==
    [stream \in PipelineStreams \cup RequestStreams \cup LoadStreams |->
       ParseRequest(stream)]

(***************************************************************************)
(* The server: Application.Start and handleRequest.                        *)
(***************************************************************************)

VARIABLES
    caller,     \* the code that uses the engine: its position and its values
    a,          \* the Application: configuration and routes
    clients,    \* the environment: how many clients connect, and what they send
    ctxDone,    \* a.Context is cancelled
    listener,   \* "open" or "closed"
    accepted,   \* the connections Accept has returned so far
    acceptor,   \* the accept goroutine: its position and the connection it holds
    recvQueue,  \* the channel recvQueue
    dispatcher, \* the dispatch loop of Start: its position and its connection
    queue,      \* the channel queue
    worker,     \* per worker, the position and the locals of handleRequest
    conns,      \* per connection, the worker that received it and its Close calls
    crashed     \* a goroutine panicked: the process is gone

vars ==
    <<caller, a, clients, ctxDone, listener, accepted, acceptor, recvQueue, dispatcher,
      queue, worker, conns, crashed>>

WorkerIds == 1..a.WorkerCount

ConnIds == 1..clients.count

\* cap(queue) = cap(recvQueue) = a.WorkerCount*10
QueueCap == a.WorkerCount * QueueFactor

IdleWorker ==
    [pc |-> "idle", conn |-> 0, stream |-> <<>>, request |-> NilPtr,
     handler |-> NilPtr, routeState |-> 0, i |-> 0, calls |-> <<>>, wire |-> <<>>]

InitWith(app, env) ==
    /\ a = app
    /\ clients = env
    /\ ctxDone = FALSE
    /\ listener = "open"
    /\ accepted = 0
    /\ acceptor = [pc |-> "accept", conn |-> 0]
    /\ recvQueue = <<>>
    /\ dispatcher = [pc |-> "select", conn |-> 0]
    /\ queue = <<>>
    /\ worker = [w \in 1..app.WorkerCount |-> IdleWorker]
    /\ conns = [c \in 1..env.count |-> [owner |-> 0, closes |-> <<>>]]
    /\ crashed = FALSE

\* The context is cancelled (an interrupt, or the caller's cancel function).
Cancel ==
    /\ ~crashed
    /\ ~ctxDone
    /\ ctxDone' = TRUE
    /\ UNCHANGED <<caller, a, clients, listener, accepted, acceptor, recvQueue, dispatcher,
                   queue, worker, conns, crashed>>

\* listener.Accept() returns the next client's connection.
Accept ==
    /\ ~crashed
    /\ acceptor.pc = "accept"
    /\ listener = "open"
    /\ accepted < clients.count
    /\ accepted' = accepted + 1
    /\ acceptor' = [pc |-> "send", conn |-> accepted + 1]
    /\ UNCHANGED <<caller, a, clients, ctxDone, listener, recvQueue, dispatcher, queue,
                   worker, conns, crashed>>

\* Mutant of AcceptSend: the send goes through although the channel is full.
AcceptSendUnbounded ==
    /\ ~crashed
    /\ acceptor.pc = "send"
    /\ recvQueue' = Append(recvQueue, acceptor.conn)
    /\ acceptor' = [pc |-> "accept", conn |-> 0]
    /\ UNCHANGED <<caller, a, clients, ctxDone, listener, accepted, dispatcher, queue,
                   worker, conns, crashed>>

\* recvQueue <- conn, which blocks while the channel is full.
AcceptSend ==
    /\ ~crashed
    /\ acceptor.pc = "send"
    /\ Len(recvQueue) < QueueCap
    /\ recvQueue' = Append(recvQueue, acceptor.conn)
    /\ acceptor' = [pc |-> "accept", conn |-> 0]
    /\ UNCHANGED <<caller, a, clients, ctxDone, listener, accepted, dispatcher, queue,
                   worker, conns, crashed>>

\* listener.Accept() fails with net.ErrClosed: the accept goroutine returns.
AcceptClosed ==
    /\ ~crashed
    /\ acceptor.pc = "accept"
    /\ listener = "closed"
    /\ acceptor' = [pc |-> "done", conn |-> 0]
    /\ UNCHANGED <<caller, a, clients, ctxDone, listener, accepted, recvQueue, dispatcher,
                   queue, worker, conns, crashed>>

\* Mutant of DispatchReceive: the newest connection of recvQueue is taken.
DispatchReceiveLast ==
    /\ ~crashed
    /\ dispatcher.pc = "select"
    /\ recvQueue # <<>>
    /\ dispatcher' = [pc |-> "send", conn |-> recvQueue[Len(recvQueue)]]
    /\ recvQueue' = SubSeq(recvQueue, 1, Len(recvQueue) - 1)
    /\ UNCHANGED <<caller, a, clients, ctxDone, listener, accepted, acceptor, queue, worker,
                   conns, crashed>>

\* case conn := <-recvQueue
DispatchReceive ==
    /\ ~crashed
    /\ dispatcher.pc = "select"
    /\ recvQueue # <<>>
    /\ dispatcher' = [pc |-> "send", conn |-> Head(recvQueue)]
    /\ recvQueue' = Tail(recvQueue)
    /\ UNCHANGED <<caller, a, clients, ctxDone, listener, accepted, acceptor, queue, worker,
                   conns, crashed>>

\* Mutant of DispatchSend: the connection is not put on the work queue.
DispatchDrop ==
    /\ ~crashed
    /\ dispatcher.pc = "send"
    /\ dispatcher' = [pc |-> "select", conn |-> 0]
    /\ UNCHANGED <<caller, a, clients, ctxDone, listener, accepted, acceptor, recvQueue,
                   queue, worker, conns, crashed>>

\* queue <- conn, which blocks while the channel is full.
DispatchSend ==
    /\ ~crashed
    /\ dispatcher.pc = "send"
    /\ Len(queue) < QueueCap
    /\ queue' = Append(queue, dispatcher.conn)
    /\ dispatcher' = [pc |-> "select", conn |-> 0]
    /\ UNCHANGED <<caller, a, clients, ctxDone, listener, accepted, acceptor, recvQueue,
                   worker, conns, crashed>>

\* case <-(*a).Context.Done(): listener.Close(), then wg.Wait().
DispatchCancel ==
    /\ ~crashed
    /\ dispatcher.pc = "select"
    /\ ctxDone
    /\ listener' = "closed"
    /\ dispatcher' = [pc |-> "wait", conn |-> 0]
    /\ UNCHANGED <<caller, a, clients, ctxDone, accepted, acceptor, recvQueue, queue, worker,
                   conns, crashed>>

\* Mutant of WaitGroupDone: Start does not wait for the workers.
WaitGroupSkipped == TRUE

\* wg.Wait() returns once every worker has called wg.Done().
WaitGroupDone == \A w \in WorkerIds : worker[w].pc = "done"

\* wg.Wait() returns, and Start with it.
DispatchReturn ==
    /\ ~crashed
    /\ dispatcher.pc = "wait"
    /\ WaitGroupDone
    /\ dispatcher' = [pc |-> "returned", conn |-> 0]
    /\ UNCHANGED <<caller, a, clients, ctxDone, listener, accepted, acceptor, recvQueue,
                   queue, worker, conns, crashed>>

\* The worker is in the select of ReqLoop.
AtSelect(w) == worker[w].pc = "idle"

\* case <-cn.Done(): the worker returns.
WorkerExit(w) ==
    /\ ~crashed
    /\ AtSelect(w)
    /\ ctxDone
    /\ worker' = [worker EXCEPT ![w] = [IdleWorker EXCEPT !.pc = "done"]]
    /\ UNCHANGED <<caller, a, clients, ctxDone, listener, accepted, acceptor, recvQueue,
                   dispatcher, queue, conns, crashed>>

\* Mutant of WorkerDequeue: the connection received stays on the queue.
WorkerPeek(w) ==
    /\ ~crashed
    /\ AtSelect(w)
    /\ queue # <<>>
    /\ \E stream \in clients.streams :
         worker' = [worker EXCEPT
                      ![w] = [IdleWorker EXCEPT
                                !.pc = "parse", !.conn = Head(queue), !.stream = stream,
                                !.routeState = worker[w].routeState]]
    /\ conns' = [conns EXCEPT ![Head(queue)].owner = w]
    /\ UNCHANGED <<caller, a, clients, ctxDone, listener, accepted, acceptor, recvQueue,
                   dispatcher, queue, crashed>>

\* case conn := <-conn: the worker receives the connection at the head of queue.
WorkerDequeue(w) ==
    /\ ~crashed
    /\ AtSelect(w)
    /\ queue # <<>>
    /\ \E stream \in clients.streams :
         worker' = [worker EXCEPT
                      ![w] = [IdleWorker EXCEPT
                                !.pc = "parse", !.conn = Head(queue), !.stream = stream,
                                !.routeState = worker[w].routeState]]
    /\ queue' = Tail(queue)
    /\ conns' = [conns EXCEPT ![Head(queue)].owner = w]
    /\ UNCHANGED <<caller, a, clients, ctxDone, listener, accepted, acceptor, recvQueue,
                   dispatcher, crashed>>

\* Mutant of Close: the call is missing.
CloseMissing(c, w) == conns

\* conn.Close() by worker w.
Close(c, w) == [conns EXCEPT ![c].closes = Append(@, w)]

\* request == nil
ParseFailed(request) == request.kind = Nil

\* Mutant of RejectUnparsed: a 400 response is written before the close.
RejectWithResponse(w, request) ==
    /\ worker' = [worker EXCEPT
                    ![w].pc = "idle", ![w].request = request,
                    ![w].wire = Append(@, Write(SetStatus(StringResponse(<<>>),
                                                          StatusBadRequest)))]
    /\ conns' = Close(worker[w].conn, w)

\* handlerLog(..., "Could not parse request."); conn.Close(); continue ReqLoop
RejectUnparsed(w, request) ==
    /\ worker' = [worker EXCEPT ![w].pc = "idle", ![w].request = request]
    /\ conns' = Close(worker[w].conn, w)

\* request := ParseRequest(&conn); a nil request closes the connection.
WorkerParse(w) ==
    /\ ~crashed
    /\ worker[w].pc = "parse"
    /\ \E request \in {ParsedStreams[worker[w].stream]} :
         IF request.kind = Panic
         THEN /\ worker' = [worker EXCEPT ![w].pc = "panic"]
              /\ crashed' = TRUE
              /\ UNCHANGED conns
         ELSE IF ParseFailed(request)
         THEN /\ RejectUnparsed(w, request)
              /\ UNCHANGED crashed
         ELSE /\ worker' = [worker EXCEPT ![w].pc = "route", ![w].request = request]
              /\ UNCHANGED <<conns, crashed>>
    /\ UNCHANGED <<caller, a, clients, ctxDone, listener, accepted, acceptor, recvQueue,
                   dispatcher, queue>>

\* Mutant of IsPreflight: OPTIONS requests are routed like any other.
IsPreflightNever(request) == FALSE

\* request.Method == Options
IsPreflight(request) == request.Method = Options

\* The response to an OPTIONS request.
OptionsResponse ==
    [kind |-> "HttpResponse", StatusCode |-> StatusOK, Body |-> <<>>,
     Headers |-> MapSet(MapSet(MapSet(EmptyMap, AllowOriginKey, a.CorsOrigin),
                               AllowHeadersKey, a.CorsHeaders),
                        AllowMethodsKey, a.CorsMethods),
     Writer |-> NoWriter, WriterSize |-> 0]

\* response.ApplyCors(&app.CorsOrigin, &app.CorsHeaders, &app.CorsMethods)
WithCors(response) == ApplyCors(response, a.CorsOrigin, a.CorsHeaders, a.CorsMethods)

\* Mutant of NotFound404: SetStatus(StatusNotFound) is missing.
NotFoundWithoutStatus == WithCors([StringResponse(<<>>) EXCEPT !.Body = Body404])

\* The response prepared before routing, written when routing finds nothing.
NotFound404 ==
    WithCors(SetStatus([StringResponse(<<>>) EXCEPT !.Body = Body404], StatusNotFound))

\* route.Handlers[request.Method], and whether the key was found.
HandlerFor(route, method) == MapGet(a.Routes.nodes[route].Handlers, method, NilPtr)

\* Mutant of WriteAndClose: the response is written twice.
WriteTwiceAndClose(w, me, response) ==
    /\ worker' = [worker EXCEPT
                    ![w] = [me EXCEPT !.pc = "idle",
                                      !.wire = Append(Append(@, Write(response)),
                                                      Write(response))]]
    /\ conns' = Close(me.conn, w)

\* response.Write(conn); conn.Close(); continue ReqLoop
WriteAndClose(w, me, response) ==
    /\ worker' = [worker EXCEPT
                    ![w] = [me EXCEPT !.pc = "idle", !.wire = Append(@, Write(response))]]
    /\ conns' = Close(me.conn, w)

\* Mutant of ZeroRouteState: the variable keeps what the worker's last request left.
StaleRouteState(me) == me.routeState

\* var routeState RouteState: a new variable with the zero value, per request.
ZeroRouteState(me) == 0

\* Mutant of StateAfter: the function received a copy of the state, its write is
\* lost.
StateByValue(fn, me) == me.routeState

\* What *routeData.State is after fn(&routeData): the middleware auth stores the
\* identity of its connection's user in it, the other functions only read it.
StateAfter(fn, me) == IF fn = "auth" THEN me.conn ELSE me.routeState

\* The OPTIONS check, FindPath, the handler lookup and the route state.
WorkerRoute(w) ==
    LET me    == worker[w]
        found == FindPath(a.Routes, me.request.Path, FALSE)
    IN  /\ ~crashed
        /\ me.pc = "route"
        /\ IF IsPreflight(me.request)
           THEN /\ WriteAndClose(w, me, OptionsResponse)
                /\ UNCHANGED <<a, crashed>>
           ELSE IF found.kind = Panic
           THEN /\ worker' = [worker EXCEPT ![w].pc = "panic"]
                /\ crashed' = TRUE
                /\ UNCHANGED <<a, conns>>
           ELSE /\ a' = [a EXCEPT !.Routes = found.rc]
                /\ UNCHANGED crashed
                /\ IF found.node = NilRoute
                   THEN WriteAndClose(w, me, NotFound404)
                   ELSE LET handler == HandlerFor(found.node, me.request.Method)
                        IN  IF handler.kind = Nil
                            THEN WriteAndClose(w, me, NotFound404)
                            ELSE /\ worker' = [worker EXCEPT
                                                 ![w].pc = "chain",
                                                 ![w].handler = handler,
                                                 ![w].routeState = ZeroRouteState(me),
                                                 ![w].i = 0]
                                 /\ UNCHANGED conns
        /\ UNCHANGED <<caller, clients, ctxDone, listener, accepted, acceptor, recvQueue,
                       dispatcher, queue>>

\* Mutant of ChainStops: the loop goes on whatever a middleware returned.
ChainNeverStops(response) == FALSE

\* response != nil after a middleware: the chain stops.
ChainStops(response) == response.kind # Nil

\* One turn of the middleware loop: handler.Middleware[i](&routeData).
WorkerMiddleware(w) ==
    LET me == worker[w]
    IN  /\ ~crashed
        /\ me.pc = "chain"
        /\ me.i < Len(me.handler.Middleware)
        /\ \E response \in MiddlewareReturns(me.handler.Middleware[me.i + 1], me.request) :
             LET called == [me EXCEPT
                              !.calls = Append(@, [kind |-> "middleware", index |-> me.i,
                                                   fn |-> me.handler.Middleware[me.i + 1],
                                                   request |-> me.request,
                                                   state |-> me.routeState,
                                                   returned |-> response]),
                              !.routeState = StateAfter(me.handler.Middleware[me.i + 1], me)]
             IN  IF ChainStops(response)
                 THEN WriteAndClose(w, called, WithCors(response))
                 ELSE /\ worker' = [worker EXCEPT ![w] = [called EXCEPT !.i = me.i + 1]]
                      /\ UNCHANGED conns
        /\ UNCHANGED <<caller, a, clients, ctxDone, listener, accepted, acceptor, recvQueue,
                       dispatcher, queue, crashed>>

\* The response sent for a handler that returned nil.
NilHandlerResponse == StringResponse(Body500)

\* response = handler.Handler(&routeData), after the middleware loop has ended.
WorkerHandler(w) ==
    LET me == worker[w]
    IN  /\ ~crashed
        /\ me.pc = "chain"
        /\ me.i >= Len(me.handler.Middleware)
        /\ \E response \in HandlerReturns(me.handler.Handler, me.request) :
             LET called == [me EXCEPT
                              !.calls = Append(@, [kind |-> "handler", index |-> me.i,
                                                   fn |-> me.handler.Handler,
                                                   request |-> me.request,
                                                   state |-> me.routeState,
                                                   returned |-> response])]
             IN  WriteAndClose(w, called,
                               WithCors(IF response.kind = Nil
                                        THEN NilHandlerResponse
                                        ELSE response))
        /\ UNCHANGED <<caller, a, clients, ctxDone, listener, accepted, acceptor, recvQueue,
                       dispatcher, queue, crashed>>

Next ==
    \/ Cancel
    \/ Accept
    \/ AcceptSend
    \/ AcceptClosed
    \/ DispatchReceive
    \/ DispatchSend
    \/ DispatchCancel
    \/ DispatchReturn
    \/ \E w \in WorkerIds : WorkerExit(w)
    \/ \E w \in WorkerIds : WorkerDequeue(w)
    \/ \E w \in WorkerIds : WorkerParse(w)
    \/ \E w \in WorkerIds : WorkerRoute(w)
    \/ \E w \in WorkerIds : WorkerMiddleware(w)
    \/ \E w \in WorkerIds : WorkerHandler(w)

\* The request-pipeline configuration: every kind of request, few connections.
Init ==
    /\ caller = [pc |-> "Start"]
    /\ InitWith(NewInlineApplication(Workers),
                [count |-> Clients, streams |-> PipelineStreams])

Spec == Init /\ [][Next]_vars

\* The single-request configuration: one worker serves one connection, which
\* carries any of the request streams.
RequestInit ==
    /\ caller = [pc |-> "Start"]
    /\ InitWith(NewInlineApplication(RequestWorkers),
                [count |-> RequestClients, streams |-> RequestStreams])

RequestSpec == RequestInit /\ [][Next]_vars

\* The load configuration: more connections than both queues hold together.
LoadClients == 2 * LoadWorkers * QueueFactor + 2

LoadInit ==
    /\ caller = [pc |-> "Start"]
    /\ InitWith(NewInlineApplication(LoadWorkers),
                [count |-> LoadClients, streams |-> LoadStreams])

\* The steps of the accept goroutine that do not wait for a client.
AcceptorStep == AcceptSend \/ AcceptClosed

\* The steps of the dispatch loop.
DispatcherStep == DispatchReceive \/ DispatchSend \/ DispatchCancel \/ DispatchReturn

\* The steps of worker w.
WorkerStep(w) ==
    \/ WorkerExit(w)
    \/ WorkerDequeue(w)
    \/ WorkerParse(w)
    \/ WorkerRoute(w)
    \/ WorkerMiddleware(w)
    \/ WorkerHandler(w)

\* Every goroutine that can take a step eventually takes one; a worker in its
\* select eventually takes one of the ready cases. Clients connecting and the
\* cancellation are the environment's.
Fairness ==
    /\ WF_vars(AcceptorStep)
    /\ WF_vars(DispatcherStep)
    /\ \A w \in 1..LoadWorkers : WF_vars(WorkerStep(w))

LoadSpec == LoadInit /\ [][Next]_vars /\ Fairness

(***************************************************************************)
(* Properties.                                                             *)
(***************************************************************************)

\* The worker has a connection and is past ParseRequest for it.
Parsed(w) == worker[w].conn # 0 /\ worker[w].pc \notin {"parse", "panic"}

\* The worker has finished its connection and is back in its select.
Served(w) == worker[w].conn # 0 /\ worker[w].pc = "idle"

C3_DrainedBeforeReturn ==
    /\ dispatcher.pc = "returned" => \A w \in WorkerIds : worker[w].pc = "done"
    /\ \A w \in WorkerIds :
         worker[w].pc = "done" =>
           \A c \in ConnIds : conns[c].owner = w => conns[c].closes = <<w>>
    /\ dispatcher.pc = "returned" =>
         \A c \in ConnIds : conns[c].owner # 0 => Len(conns[c].closes) = 1

\* Start has returned after the workers served connections.
C3_Witness ==
    /\ dispatcher.pc = "returned"
    /\ \E c1, c2 \in ConnIds :
         c1 # c2 /\ conns[c1].owner # 0 /\ conns[c2].owner # 0
         /\ conns[c1].owner # conns[c2].owner

\* C9: once ParseRequest has returned nil for a worker's connection, the worker
\* is back in its select with nothing written to the connection, no middleware
\* or handler called, and the connection closed by it.
C9_ParseFailureClosesSilently ==
    \A w \in WorkerIds :
      (Parsed(w) /\ ParseRequest(worker[w].stream).kind = Nil) =>
        /\ worker[w].pc = "idle"
        /\ worker[w].request.kind = Nil
        /\ worker[w].wire = <<>>
        /\ worker[w].calls = <<>>
        /\ conns[worker[w].conn].closes = <<w>>

\* A worker is back in its select after a failed parse, and the next connection
\* waits in the queue.
C9_Witness ==
    \E w \in WorkerIds :
      /\ Served(w)
      /\ ParseRequest(worker[w].stream).kind = Nil
      /\ conns[worker[w].conn].closes = <<w>>
      /\ queue # <<>>

\* C2: once the context is cancelled, the dispatch loop eventually closes the
\* listener, every worker eventually returns, and Start returns.
C2_ShutdownCompletes ==
    ctxDone ~>
      (/\ listener = "closed"
       /\ \A w \in WorkerIds : worker[w].pc = "done"
       /\ dispatcher.pc = "returned")

\* The context is cancelled, every worker has returned, the work queue is full and
\* the dispatcher holds a connection it cannot send.
C2_Witness ==
    /\ ctxDone
    /\ \A w \in WorkerIds : worker[w].pc = "done"
    /\ dispatcher.pc = "send"
    /\ Len(queue) = QueueCap
    /\ listener = "open"

\* The worker is past the routing of a request ParseRequest returned.
Routed(w) ==
    /\ Parsed(w)
    /\ worker[w].pc # "route"
    /\ worker[w].request.kind = "HttpRequest"

CorsKeys == {AllowOriginKey, AllowHeadersKey, AllowMethodsKey}

\* The three CORS headers of `headers` have the application's values.
CorsConfigured(headers) ==
    /\ CorsKeys \subseteq DOMAIN headers
    /\ headers[AllowOriginKey] = a.CorsOrigin
    /\ headers[AllowHeadersKey] = a.CorsHeaders
    /\ headers[AllowMethodsKey] = a.CorsMethods

\* The status code in a status line "HTTP/1.1 <code> <reason>".
StatusOf(written) == Atoi(SubSeq(written.StatusLine, 10, 12)).n

\* What was written is this response with the CORS headers applied.
Carries(written, response) ==
    /\ StatusOf(written) = response.StatusCode
    /\ written.Body = response.Body
    /\ DOMAIN written.Headers = DOMAIN response.Headers \cup CorsKeys
    /\ \A key \in DOMAIN response.Headers \ CorsKeys :
         written.Headers[key] = response.Headers[key]
    /\ CorsConfigured(written.Headers)

Line200 == <<"H", "T", "T", "P", "/", "1", ".", "1", SP, "2", "0", "0", SP, "O", "K">>

Line404 == <<"H", "T", "T", "P", "/", "1", ".", "1", SP, "4", "0", "4", SP, "N", "o", "t", SP, "F", "o", "u", "n", "d">>

Line500 == <<"H", "T", "T", "P", "/", "1", ".", "1", SP, "5", "0", "0", SP, "I", "n", "t", "e", "r", "n", "a", "l", SP, "S", "e", "r", "v", "e", "r", SP, "E", "r", "r", "o", "r">>

\* C4: the middleware of a route are called in their order, each at most once;
\* after a middleware returned a response no later middleware and no handler is
\* called and that response, with the CORS headers applied, is what is written;
\* the handler is called only after every middleware returned nil.
C4_MiddlewareShortCircuits ==
    \A w \in WorkerIds :
      LET me == worker[w]
      IN  \A k \in 1..Len(me.calls) :
            LET call == me.calls[k]
            IN  /\ call.kind = "middleware" =>
                     /\ k <= Len(me.handler.Middleware)
                     /\ call.index = k - 1
                     /\ call.fn = me.handler.Middleware[k]
                /\ (call.kind = "middleware" /\ call.returned.kind # Nil) =>
                     /\ k = Len(me.calls)
                     /\ me.pc = "idle"
                     /\ Len(me.wire) = 1
                     /\ Carries(me.wire[1], call.returned)
                /\ call.kind = "handler" =>
                     /\ k = Len(me.calls)
                     /\ k = Len(me.handler.Middleware) + 1
                     /\ call.fn = me.handler.Handler
                     /\ \A j \in 1..(k - 1) :
                          /\ me.calls[j].kind = "middleware"
                          /\ me.calls[j].returned.kind = Nil

\* The second of two middleware was the first to return a response.
C4_Witness ==
    \E w \in WorkerIds :
      /\ Served(w)
      /\ worker[w].handler.kind = "RouteHandler"
      /\ Len(worker[w].handler.Middleware) = 2
      /\ Len(worker[w].calls) = 2
      /\ worker[w].calls[1].returned.kind = Nil
      /\ worker[w].calls[2].returned.kind # Nil
      /\ Len(worker[w].wire) = 1

\* C5: when the handler returned nil, the response written has the status line
\* "HTTP/1.1 500 Internal Server Error".
C5_NilHandlerIs500 ==
    \A w \in WorkerIds :
      LET me == worker[w]
      IN  (/\ Served(w)
           /\ me.calls # <<>>
           /\ me.calls[Len(me.calls)].kind = "handler"
           /\ me.calls[Len(me.calls)].returned.kind = Nil) =>
            /\ Len(me.wire) = 1
            /\ me.wire[1].StatusLine = Line500

\* A handler returned nil and the canned response was written for it.
C5_Witness ==
    \E w \in WorkerIds :
      /\ Served(w)
      /\ worker[w].calls # <<>>
      /\ worker[w].calls[Len(worker[w].calls)].kind = "handler"
      /\ worker[w].calls[Len(worker[w].calls)].returned.kind = Nil
      /\ Len(worker[w].wire) = 1
      /\ worker[w].wire[1].Body = Body500

\* The node of the request's path has a handler for the request's method.
HasHandler(request) ==
    LET found == FindPath(a.Routes, request.Path, FALSE)
    IN  /\ found.kind = "ok"
        /\ found.node # NilRoute
        /\ request.Method \in DOMAIN found.rc.nodes[found.node].Handlers

\* C6: a served request that is not OPTIONS, has a handler for its method and
\* had no middleware return a response had its handler called exactly once, as
\* the last call; a response the handler returned is written with its status code
\* and body unchanged. GET /health yields "HTTP/1.1 200 OK" and the body OK.
C6_HandlerResponseWritten ==
    \A w \in WorkerIds :
      LET me == worker[w]
          n  == Len(me.calls)
      IN  /\ (/\ Served(w)
              /\ me.request.kind = "HttpRequest"
              /\ me.request.Method # Options
              /\ HasHandler(me.request)
              /\ \A k \in 1..n :
                   me.calls[k].kind = "middleware" => me.calls[k].returned.kind = Nil) =>
               /\ n >= 1
               /\ me.calls[n].kind = "handler"
               /\ Cardinality({k \in 1..n : me.calls[k].kind = "handler"}) = 1
               /\ Len(me.wire) = 1
               /\ me.calls[n].returned.kind # Nil =>
                    Carries(me.wire[1], me.calls[n].returned)
          /\ (Served(w) /\ me.stream = GetHealth) =>
               /\ Len(me.wire) = 1
               /\ me.wire[1].StatusLine = Line200
               /\ me.wire[1].Body = BodyOK

\* POST /users/new was served by its handler, which returned the request's body.
C6_Witness ==
    \E w \in WorkerIds :
      /\ Served(w)
      /\ worker[w].stream = PostWithBody(3, 3)
      /\ Len(worker[w].calls) = 3
      /\ worker[w].calls[3].kind = "handler"
      /\ worker[w].calls[3].returned.kind # Nil
      /\ worker[w].wire[1].Body = Slice(BodyBytes, 0, 3)

C8_PreflightAnswered ==
    \A w \in WorkerIds :
      LET me == worker[w]
      IN  (Routed(w) /\ me.request.Method = Options) =>
            /\ me.pc = "idle"
            /\ me.calls = <<>>
            /\ me.handler.kind = Nil
            /\ Len(me.wire) = 1
            /\ me.wire[1].StatusLine = Line200
            /\ me.wire[1].Body = <<>>
            /\ me.wire[1].ContentLength = <<"0">>
            /\ DOMAIN me.wire[1].Headers = CorsKeys
            /\ CorsConfigured(me.wire[1].Headers)

\* OPTIONS for a registered path, /health, was answered.
C8_Witness ==
    \E w \in WorkerIds :
      /\ Served(w)
      /\ worker[w].stream = OptionsHealth
      /\ HasHandler([worker[w].request EXCEPT !.Method = Get])
      /\ Len(worker[w].wire) = 1

\* The body lengths the POST requests declare.
DeclaredLengths == 0..MaxBody \cup {10}

\* C10: a request that declares Content-Length n on a connection that delivers
\* fewer than n body bytes makes ParseRequest return nil: nothing is written, no
\* middleware or handler is called and the connection is closed. Whenever a
\* middleware or handler is called for a request that declares n body bytes, the
\* request has all n of them.
C10_ShortBodyRejected ==
    \A w \in WorkerIds : \A declared \in DeclaredLengths : \A sent \in 0..MaxBody :
      LET me == worker[w]
      IN  (Parsed(w) /\ me.stream = PostWithBody(declared, sent)) =>
            /\ sent < declared =>
                 /\ me.request.kind = Nil
                 /\ me.pc = "idle"
                 /\ me.wire = <<>>
                 /\ me.calls = <<>>
                 /\ conns[me.conn].closes = <<w>>
            /\ me.calls # <<>> => me.request.Body = Slice(BodyBytes, 0, declared)

\* The request that declares 10 body bytes and delivers 3 was rejected.
C10_Witness ==
    \E w \in WorkerIds :
      /\ Served(w)
      /\ worker[w].stream = PostWithBody(10, 3)
      /\ worker[w].request.kind = Nil
      /\ conns[worker[w].conn].closes = <<w>>

\* C11: every response written to a connection has the three CORS headers with
\* the application's configured values, also when the middleware or handler that
\* produced the response had set one of them to another value.
C11_CorsOnEveryResponse ==
    \A w \in WorkerIds :
      \A k \in 1..Len(worker[w].wire) : CorsConfigured(worker[w].wire[k].Headers)

\* A handler's response that set its own Access-Control-Allow-Origin was written.
C11_Witness ==
    \E w \in WorkerIds :
      LET me == worker[w]
      IN  /\ Served(w)
          /\ me.calls # <<>>
          /\ me.calls[Len(me.calls)].returned.kind = "HttpResponse"
          /\ AllowOriginKey \in DOMAIN me.calls[Len(me.calls)].returned.Headers
          /\ me.calls[Len(me.calls)].returned.Headers[AllowOriginKey] # a.CorsOrigin
          /\ Len(me.wire) = 1

(***************************************************************************)
(* The routing trie used directly: the application registers routes one    *)
(* after another (RouterSpec); caller.log is the list of its calls.        *)
(***************************************************************************)

\* The registrations the application makes.
MaxRegistrations == 3

UsersPath == <<"/", "u", "s", "e", "r", "s">>

UsersSlashPath == <<"/", "u", "s", "e", "r", "s", "/">>

UsersIdPath == <<"/", "u", "s", "e", "r", "s", "/", ":", "i", "d">>

UsersMePath == <<"/", "u", "s", "e", "r", "s", "/", "m", "e">>

Users42Path == <<"/", "u", "s", "e", "r", "s", "/", "4", "2">>

Users42ExtraPath == <<"/", "u", "s", "e", "r", "s", "/", "4", "2", "/", "e", "x", "t", "r", "a">>

\* The paths routes are registered under, and the paths looked up.
RegisterPaths == {UsersPath, UsersSlashPath, UsersIdPath, UsersMePath}

LookupPaths == RegisterPaths \cup {Users42Path, Users42ExtraPath, HealthPath}

RouterMethods == {Get, Post}

RouterHandlers == {"listUsers", "showUser"}

\* A new application: no route is registered, Start is not called.
RouterInit ==
    /\ caller = [pc |-> "register", log |-> <<>>]
    /\ InitWith([NewInlineApplication(RequestWorkers) EXCEPT !.Routes = NewRouteCollection],
                [count |-> RequestClients, streams |-> {GetHealth}])

\* The application has called a.Routes.<add>(method, path, ...), which left the
\* collection as `routes` and bound `handler`.
Registered(routes, method, path, handler) ==
    /\ caller.pc = "register"
    /\ Len(caller.log) < MaxRegistrations
    /\ a' = [a EXCEPT !.Routes = routes]
    /\ caller' = [caller EXCEPT
                    !.log = Append(@, [method |-> method, path |-> path,
                                       handler |-> handler])]
    /\ UNCHANGED <<clients, ctxDone, listener, accepted, acceptor, recvQueue,
                   dispatcher, queue, worker, conns, crashed>>

\* a.Routes.AddRoute(method, path, fn)
RegisterRoute(method, path, fn) ==
    Registered(AddRoute(a.Routes, method, path, fn), method, path,
               [kind |-> "RouteHandler", Handler |-> fn, Middleware |-> <<>>])

\* a.Routes.AddRouteWithMiddleware(method, path, fn, middleware)
RegisterRouteWithMiddleware(method, path, fn, middleware) ==
    Registered(AddRouteWithMiddleware(a.Routes, method, path, fn, middleware),
               method, path,
               [kind |-> "RouteHandler", Handler |-> fn, Middleware |-> middleware])

RouterNext ==
    \/ \E method \in RouterMethods, path \in RegisterPaths, fn \in RouterHandlers :
         RegisterRoute(method, path, fn)
    \/ \E method \in RouterMethods, path \in RegisterPaths :
         RegisterRouteWithMiddleware(method, path, "listUsers", <<"auth">>)

RouterSpec == RouterInit /\ [][RouterNext]_vars

\* a.Routes.FindPath(path, false) followed by the lookup of the method in the
\* node's Handlers: the handler bound, or nil when the node or the entry is absent.
Lookup(method, path) ==
    LET found == FindPath(a.Routes, path, FALSE)
    IN  IF found.node = NilRoute THEN NilPtr ELSE HandlerFor(found.node, method)

\* The handler of the last call in caller.log that is among `calls`, or nil.
LastOf(calls) ==
    IF calls = {} THEN NilPtr
    ELSE caller.log[CHOOSE k \in calls : \A j \in calls : j <= k].handler

\* The calls that registered exactly this method and this path string.
CallsFor(method, path) ==
    {k \in 1..Len(caller.log) :
       caller.log[k].method = method /\ caller.log[k].path = path}

\* The calls that registered this method and a path with the same segments.
CallsForSegments(method, path) ==
    {k \in 1..Len(caller.log) :
       /\ caller.log[k].method = method
       /\ PathListFromString(caller.log[k].path) = PathListFromString(path)}

\* C12, as stated: the lookup of a (method, path) pair returns the handler and
\* middleware of the last registration of that very pair, and nil for a pair that
\* was never registered.
C12_LastRegistrationWins ==
    \A method \in RouterMethods : \A path \in LookupPaths :
      Lookup(method, path) = LastOf(CallsFor(method, path))

\* C12, amended: the lookup of a (method, path) pair returns the handler and
\* middleware of the last registration of that method under a path with the same
\* segments (paths that differ by one trailing slash are one path), and nil when
\* there is none; registrations of other methods or other segments change nothing.
C12_LastRegistrationOfSegmentsWins ==
    \A method \in RouterMethods : \A path \in LookupPaths :
      Lookup(method, path) = LastOf(CallsForSegments(method, path))

\* A pair was registered twice, with another method registered on the same node
\* in between, and the lookup returns the second binding.
C12_Witness ==
    /\ caller.pc = "register"
    /\ Len(caller.log) = 3
    /\ caller.log[1].method = caller.log[3].method
    /\ caller.log[1].path = caller.log[3].path
    /\ caller.log[1].handler # caller.log[3].handler
    /\ caller.log[2].method # caller.log[1].method
    /\ caller.log[2].path = caller.log[1].path
    /\ Lookup(caller.log[1].method, caller.log[1].path) = caller.log[3].handler
    /\ Lookup(caller.log[2].method, caller.log[2].path) = caller.log[2].handler

\* Some call registered this path, for whatever method.
IsRegistered(path) == \E method \in RouterMethods : CallsFor(method, path) # {}

\* FindPath(path, false) returns a node, and its PathComponent is comp.
ResolvesTo(path, comp) ==
    LET found == FindPath(a.Routes, path, FALSE)
    IN  /\ found.node # NilRoute
        /\ a.Routes.nodes[found.node].PathComponent = comp

\* C13: once /users/:id is registered, FindPath("/users/42", false) returns the
\* ":id" node and FindPath("/users/42/extra", false) returns nil.
C13_ParameterSegmentMatches ==
    IsRegistered(UsersIdPath) =>
      /\ ResolvesTo(Users42Path, <<":", "i", "d">>)
      /\ FindPath(a.Routes, Users42ExtraPath, FALSE).node = NilRoute

\* /users/:id is registered and /users/42 resolves to no node.
C13_Witness ==
    /\ IsRegistered(UsersIdPath)
    /\ ResolvesTo(UsersIdPath, <<":", "i", "d">>)
    /\ FindPath(a.Routes, Users42Path, FALSE).node = NilRoute

\* C14: once /users/me and /users/:id are both registered, /users/me resolves to
\* the literal node "me" and /users/42 resolves to the wildcard node ":id".
C14_LiteralBeforeWildcard ==
    (IsRegistered(UsersMePath) /\ IsRegistered(UsersIdPath)) =>
      /\ ResolvesTo(UsersMePath, <<"m", "e">>)
      /\ ResolvesTo(Users42Path, <<":", "i", "d">>)

\* Both are registered: /users/me resolves to "me", /users/42 to no node.
C14_Witness ==
    /\ IsRegistered(UsersMePath)
    /\ IsRegistered(UsersIdPath)
    /\ ResolvesTo(UsersMePath, <<"m", "e">>)
    /\ FindPath(a.Routes, Users42Path, FALSE).node = NilRoute

\* Paths that are longer than one character and do not end in '/'.
UnslashedPaths ==
    {path \in LookupPaths \cup {<<"/", "u", "s", "e", "r", "s", "/", "/", "m", "e">>, <<"/", "/", "u", "s", "e", "r", "s">>, <<"/", "u">>} :
       Len(path) > 1 /\ path[Len(path)] # "/"}

\* C15: for every trie the registrations build and every path longer than one
\* character that does not end in '/', FindPath of the path followed by '/'
\* returns what FindPath of the path returns: the same node, or not found.
C15_TrailingSlashIgnored ==
    \A path \in UnslashedPaths :
      FindPath(a.Routes, path \o <<"/">>, FALSE) = FindPath(a.Routes, path, FALSE)

\* /users/me is registered and found with and without a trailing slash, while
\* /users/42 is found with neither.
C15_Witness ==
    /\ Len(caller.log) = MaxRegistrations
    /\ ResolvesTo(UsersMePath, <<"m", "e">>)
    /\ ResolvesTo(UsersMePath \o <<"/">>, <<"m", "e">>)
    /\ FindPath(a.Routes, Users42Path \o <<"/">>, FALSE).node = NilRoute

(***************************************************************************)
(* PathListFromString called directly on generated paths (PathSpec).       *)
(***************************************************************************)

\* The longest generated path.
MaxPath == 5

PathAlphabet == {"/", "a", "b"}

\* The paths of TestPathListFromString.
TestPaths ==
    {<<"/">>, <<"/", "h", "e", "l", "l", "o">>, <<"/", "h", "e", "l", "l", "o", "/", "w", "o", "r", "l", "d", "/", "t", "e", "s", "t", "/">>, <<"/", "h", "e", "l", "l", "o", "/", "w", "o", "r", "l", "d", "/", "t", "e", "s", "t">>, <<"/", "h", "e", "l", "l", "o", "/", "t", "e", "s", "t", "/", "t", "e", "s", "t">>}

\* Every path of up to MaxPath bytes that starts with '/'.
GeneratedPaths ==
    UNION {{<<"/">> \o rest : rest \in [1..n -> PathAlphabet]} : n \in 0..(MaxPath - 1)}

PathInit ==
    /\ \E path \in GeneratedPaths \cup TestPaths :
         caller = [pc |-> "call", path |-> path, route |-> NilPtr]
    /\ InitWith([NewInlineApplication(RequestWorkers) EXCEPT !.Routes = NewRouteCollection],
                [count |-> RequestClients, streams |-> {GetHealth}])

\* route := PathListFromString(path)
CallPathListFromString ==
    /\ caller.pc = "call"
    /\ caller' = [caller EXCEPT !.pc = "returned",
                                !.route = PathListFromString(caller.path)]
    /\ UNCHANGED <<a, clients, ctxDone, listener, accepted, acceptor, recvQueue,
                   dispatcher, queue, worker, conns, crashed>>

PathNext == CallPathListFromString

PathSpec == PathInit /\ [][PathNext]_vars

\* The '/'-separated segments of a path that starts with '/', with the leading
\* slash and one trailing slash ignored.
Segments(path) ==
    LET parts == Split(Tail(path), "/")
    IN  IF Len(parts) > 1 /\ parts[Len(parts)] = <<>>
        THEN SubSeq(parts, 1, Len(parts) - 1)
        ELSE parts

\* C16: for a path that starts with '/', PathListFromString returns its segments
\* in order, the leading slash and one trailing slash ignored, equal segments kept
\* apart; the result for "/" is the one empty segment, and no result is empty.
C16_PathListIsSegments ==
    caller.pc = "returned" =>
      /\ caller.route.kind = "ok"
      /\ caller.route.comps = Segments(caller.path)
      /\ caller.route.comps # <<>>
      /\ caller.path = <<"/">> => caller.route.comps = << <<>> >>
      /\ caller.path = <<"/", "h", "e", "l", "l", "o", "/", "t", "e", "s", "t", "/", "t", "e", "s", "t">> =>
           caller.route.comps = <<<<"h", "e", "l", "l", "o">>, <<"t", "e", "s", "t">>, <<"t", "e", "s", "t">>>>
      /\ caller.path = <<"/", "h", "e", "l", "l", "o", "/", "w", "o", "r", "l", "d", "/", "t", "e", "s", "t", "/">> =>
           caller.route.comps = <<<<"h", "e", "l", "l", "o">>, <<"w", "o", "r", "l", "d">>, <<"t", "e", "s", "t">>>>

\* A path with a repeated segment and a trailing slash has been split.
C16_Witness ==
    /\ caller.pc = "returned"
    /\ caller.path = <<"/", "a", "/", "a", "/">>
    /\ caller.route.comps = <<<<"a">>, <<"a">>>>

\* C17: a request whose method token is not a recognised method makes
\* ParseRequest return nil: the connection is closed, nothing is written and the
\* request is not routed.
C17_UnknownMethodRejected ==
    \A w \in WorkerIds :
      (Parsed(w) /\ worker[w].stream = BrewHealth) =>
        /\ worker[w].request.kind = Nil
        /\ worker[w].pc = "idle"
        /\ worker[w].wire = <<>>
        /\ conns[worker[w].conn].closes = <<w>>

\* The request with the method token BREW was parsed, routed and answered.
C17_Witness ==
    \E w \in WorkerIds :
      /\ Served(w)
      /\ worker[w].stream = BrewHealth
      /\ worker[w].request.kind = "HttpRequest"
      /\ worker[w].request.Method = NoMethod
      /\ Len(worker[w].wire) = 1
      /\ worker[w].wire[1].StatusLine = Line404

\* C18: a request with a header line that has no ':' makes ParseRequest return
\* nil; the worker closes the connection, writes nothing and is back in its
\* select, and the server goes on.
C18_HeaderWithoutColonRejected ==
    \A w \in WorkerIds :
      (/\ worker[w].conn # 0
       /\ worker[w].stream = HeaderNoColon
       /\ worker[w].pc # "parse") =>
        /\ worker[w].request.kind = Nil
        /\ worker[w].pc = "idle"
        /\ worker[w].wire = <<>>
        /\ conns[worker[w].conn].closes = <<w>>
        /\ ~crashed

\* ParseRequest panicked on the header line without ':': the worker's goroutine
\* is gone with the connection open, and the process with it.
C18_Witness ==
    \E w \in WorkerIds :
      /\ worker[w].stream = HeaderNoColon
      /\ worker[w].pc = "panic"
      /\ conns[worker[w].conn].closes = <<>>
      /\ crashed

(***************************************************************************)
(* ParseRequest called on the wire form of well-formed requests            *)
(* (ParserSpec).                                                           *)
(***************************************************************************)

HostKey == <<"H", "o", "s", "t">>

AcceptKey == <<"A", "c", "c", "e", "p", "t">>

\* The header keys of the generated requests, in the order they are sent.
HeaderOrder == <<HostKey, AcceptKey, ContentLengthKey>>

\* The header maps of the generated requests: Host and Accept are optional, and
\* a Host may name a port.
HeaderMaps ==
    {[key \in keys |-> IF key = HostKey THEN host ELSE <<"*", "/", "*">>] :
       keys \in SUBSET {HostKey, AcceptKey},
       host \in {<<"x">>, <<"l", "o", "c", "a", "l", "h", "o", "s", "t", ":", "8", "0", "8", "0">>}}

\* Well-formed requests: a recognised method, a path, an optional query string,
\* headers, and an optional body announced by a matching Content-Length.
WellFormedRequests ==
    {[kind        |-> "HttpRequest",
      Path        |-> path,
      QueryString |-> query,
      Method      |-> method,
      Body        |-> body,
      Headers     |-> IF body = <<>> THEN headers
                      ELSE MapSet(headers, ContentLengthKey, Itoa(Len(body)))] :
       path \in {HealthPath, UsersNewPath},
       query \in {<<>>, <<"a", "=", "1">>},
       method \in {Get, Post},
       body \in {<<>>, Slice(BodyBytes, 0, MaxBody)},
       headers \in HeaderMaps}

\* The token of a method: the key of HttpMethods that maps to it.
MethodToken(method) == CHOOSE token \in DOMAIN HttpMethods : HttpMethods[token] = method

\* The header lines "Key: value\r\n" of the keys from position k of HeaderOrder on.
RECURSIVE HeaderLines(_, _)
HeaderLines(headers, k) ==
    IF k > Len(HeaderOrder) THEN <<>>
    ELSE (IF HeaderOrder[k] \in DOMAIN headers
          THEN HeaderOrder[k] \o <<":", SP>> \o headers[HeaderOrder[k]] \o CRLF
          ELSE <<>>)
         \o HeaderLines(headers, k + 1)

\* The wire format of a request: the request line, the header lines, an empty
\* line and the body.
Serialize(request) ==
    MethodToken(request.Method) \o <<SP>> \o request.Path
    \o (IF request.QueryString = <<>> THEN <<>> ELSE <<"?">> \o request.QueryString)
    \o <<SP>> \o <<"H", "T", "T", "P", "/", "1", ".", "1">> \o CRLF
    \o HeaderLines(request.Headers, 1)
    \o CRLF
    \o request.Body

ParserInit ==
    /\ \E request \in WellFormedRequests :
         caller = [pc |-> "serialize", request |-> request, bytes |-> <<>>,
                   parsed |-> NilPtr]
    /\ InitWith([NewInlineApplication(RequestWorkers) EXCEPT !.Routes = NewRouteCollection],
                [count |-> RequestClients, streams |-> {GetHealth}])

\* The client writes the request to its connection.
SendSerialized ==
    /\ caller.pc = "serialize"
    /\ caller' = [caller EXCEPT !.pc = "parse", !.bytes = Serialize(caller.request)]
    /\ UNCHANGED <<a, clients, ctxDone, listener, accepted, acceptor, recvQueue,
                   dispatcher, queue, worker, conns, crashed>>

\* request := ParseRequest(&conn)
CallParseRequest ==
    /\ caller.pc = "parse"
    /\ caller' = [caller EXCEPT !.pc = "parsed", !.parsed = ParseRequest(caller.bytes)]
    /\ UNCHANGED <<a, clients, ctxDone, listener, accepted, acceptor, recvQueue,
                   dispatcher, queue, worker, conns, crashed>>

ParserNext == SendSerialized \/ CallParseRequest

ParserSpec == ParserInit /\ [][ParserNext]_vars

\* C19: ParseRequest of the wire form of a well-formed request returns a request
\* whose method, path, query string, headers and body are the original's.
C19_ParseInvertsSerialize ==
    caller.pc = "parsed" =>
      /\ caller.parsed.kind = "HttpRequest"
      /\ caller.parsed.Method = caller.request.Method
      /\ caller.parsed.Path = caller.request.Path
      /\ caller.parsed.QueryString = caller.request.QueryString
      /\ caller.parsed.Headers = caller.request.Headers
      /\ caller.parsed.Body = caller.request.Body

\* The request with 'Host: localhost:8080' came back with the Host 'localhost',
\* its other fields intact.
C19_Witness ==
    /\ caller.pc = "parsed"
    /\ caller.request.Body # <<>>
    /\ caller.request.QueryString # <<>>
    /\ HostKey \in DOMAIN caller.request.Headers
    /\ caller.request.Headers[HostKey] = <<"l", "o", "c", "a", "l", "h", "o", "s", "t", ":", "8", "0", "8", "0">>
    /\ caller.parsed.kind = "HttpRequest"
    /\ caller.parsed.Headers[HostKey] = <<"l", "o", "c", "a", "l", "h", "o", "s", "t">>
    /\ caller.parsed.Body = caller.request.Body
    /\ caller.parsed.QueryString = caller.request.QueryString

(***************************************************************************)
(* As many concurrent connections as there are workers, each with a        *)
(* well-formed request for a route of its own (ServeSpec).                 *)
(***************************************************************************)

ServeStreams == {GetHealth, GetMissing, DeleteAdmin}

ServeInit ==
    /\ caller = [pc |-> "Start"]
    /\ InitWith(NewInlineApplication(Workers),
                [count |-> Clients, streams |-> ServeStreams])

\* Every goroutine of the server that can take a step eventually takes one.
ServeFairness ==
    /\ WF_vars(AcceptorStep)
    /\ WF_vars(DispatcherStep)
    /\ \A w \in 1..Workers : WF_vars(WorkerStep(w))

ServeSpec == ServeInit /\ [][Next]_vars /\ ServeFairness

\* Connection c has just been answered and closed by the worker that received it.
AnsweredAndClosed(c) ==
    \E w \in WorkerIds :
      /\ conns[c].owner = w
      /\ conns[c].closes = <<w>>
      /\ worker[w].conn = c
      /\ worker[w].pc = "idle"
      /\ Len(worker[w].wire) = 1

\* C20: with as many connections as workers, every connection Accept returned and
\* not yet closed is eventually received by a worker, answered and closed, unless
\* the context is cancelled: the accept loop, the dispatcher, the queues and the
\* workers never block each other for good.
C20_EveryConnectionServed ==
    \A c \in 1..Clients :
      (accepted >= c /\ conns[c].closes = <<>>) ~> (ctxDone \/ AnsweredAndClosed(c))

\* Without cancellation every connection was closed, by more than one worker.
C20_Witness ==
    /\ ~ctxDone
    /\ \A c \in ConnIds : conns[c].owner # 0 /\ conns[c].closes = <<conns[c].owner>>
    /\ \E c1, c2 \in ConnIds : conns[c1].owner # conns[c2].owner

\* C21: every middleware and handler call finds in the route state either the
\* zero value or what an earlier call for the same connection stored: the first
\* call of a request finds zero, and no call finds what was stored while another
\* connection was served, on the same worker earlier or on another worker.
C21_RouteStatePerRequest ==
    \A w \in WorkerIds :
      LET me == worker[w]
      IN  \A k \in 1..Len(me.calls) :
            /\ k = 1 => me.calls[k].state = 0
            /\ me.calls[k].state \in {0, me.conn}
            /\ me.calls[k].state = me.conn <=>
                 \E j \in 1..(k - 1) : me.calls[j].fn = "auth"

\* Two workers serve two connections at once, and the handler of each found the
\* state its own connection's middleware stored.
C21_Witness ==
    \E w1, w2 \in WorkerIds :
      /\ w1 # w2
      /\ \A w \in {w1, w2} :
           /\ worker[w].conn # 0
           /\ Len(worker[w].calls) >= 2
           /\ worker[w].calls[Len(worker[w].calls)].state = worker[w].conn

\* How often connection c occurs in the sequence q.
Occurrences(q, c) == Cardinality({k \in 1..Len(q) : q[k] = c})

\* How often connection c is on its way to a worker: held by the accept
\* goroutine, in recvQueue, held by the dispatcher, or in queue.
OnTheWay(c) ==
    (IF acceptor.conn = c THEN 1 ELSE 0) + Occurrences(recvQueue, c)
    + (IF dispatcher.conn = c THEN 1 ELSE 0) + Occurrences(queue, c)

\* The workers whose connection is c.
HeldBy(c) == {w \in WorkerIds : worker[w].conn = c}

\* C22: a connection is on its way to a worker at most once, and held by at most
\* one worker; once a worker received it, it is the only worker that ever holds
\* it and the connection is on no queue again; before that no worker holds it.
C22_ExclusiveOwnership ==
    \A c \in ConnIds :
      /\ OnTheWay(c) <= 1
      /\ Cardinality(HeldBy(c)) <= 1
      /\ conns[c].owner = 0 => HeldBy(c) = {}
      /\ conns[c].owner # 0 =>
           /\ OnTheWay(c) = 0
           /\ HeldBy(c) \subseteq {conns[c].owner}

\* Two workers are serving two different connections at the same time.
C22_Witness ==
    \E w1, w2 \in WorkerIds :
      /\ w1 # w2
      /\ worker[w1].pc \in {"parse", "route", "chain"}
      /\ worker[w2].pc \in {"parse", "route", "chain"}
      /\ worker[w1].conn # worker[w2].conn
      /\ queue = <<>>

(***************************************************************************)
(* HttpResponse.Write called directly on generated responses (WriterSpec). *)
(***************************************************************************)

CustomKey == <<"X", "-", "I", "d">>

\* The header maps of the generated responses.
ResponseHeaders ==
    {[key \in keys |-> IF key = ContentTypeKey THEN TextPlain ELSE <<"7">>] :
       keys \in SUBSET {ContentTypeKey, CustomKey}}

\* The generated responses: every status code with a description, with a body
\* in memory or with a stream whose declared size is or is not its length.
Responses ==
    {[SetStatus(StringResponse(body), status) EXCEPT !.Headers = headers] :
       status \in DOMAIN StatusCodeDescriptions,
       body \in {Slice(BodyBytes, 0, n) : n \in {0, MaxBody}},
       headers \in ResponseHeaders}
    \cup
    {[BufferedResponse(Slice(BodyBytes, 0, MaxBody), length) EXCEPT !.Headers = headers] :
       length \in {MaxBody, MaxBody + 1},
       headers \in ResponseHeaders}

\* The orders in which a range loop may visit the keys of a map.
Orders(keys) ==
    {order \in [1..Cardinality(keys) -> keys] :
       \A i, j \in 1..Cardinality(keys) : i # j => order[i] # order[j]}

WriterInit ==
    /\ \E response \in Responses :
         caller = [pc |-> "write", response |-> response, bytes |-> <<>>]
    /\ InitWith([NewInlineApplication(RequestWorkers) EXCEPT !.Routes = NewRouteCollection],
                [count |-> RequestClients, streams |-> {GetHealth}])

\* response.Write(conn) on a connection that accepts every byte.
CallWrite ==
    /\ caller.pc = "write"
    /\ \E order \in Orders(DOMAIN caller.response.Headers) :
         caller' = [caller EXCEPT !.pc = "written",
                                  !.bytes = WriteBytes(caller.response, order)]
    /\ UNCHANGED <<a, clients, ctxDone, listener, accepted, acceptor, recvQueue,
                   dispatcher, queue, worker, conns, crashed>>

WriterNext == CallWrite

WriterSpec == WriterInit /\ [][WriterNext]_vars

\* The first n lines of buf, each with its line feed, and what follows them.
RECURSIVE TakeLines(_, _)
TakeLines(buf, n) ==
    IF n = 0 THEN [lines |-> <<>>, rest |-> buf]
    ELSE LET line  == ReadBytes(buf, LF)
             later == TakeLines(line.rest, n - 1)
         IN  [lines |-> <<line.bytes>> \o later.lines, rest |-> later.rest]

\* C23: the bytes Write puts on the connection are, in this order: the status
\* line "HTTP/1.1 <code> <reason>", one "Key: Value" line for each header and no
\* other, the Content-Length line with len(Body), or with WriterSize when a
\* stream is set, an empty line, and the body or the streamed bytes; nothing more.
C23_WriteOrder ==
    caller.pc = "written" =>
      LET response == caller.response
          n        == Cardinality(DOMAIN response.Headers)
          read     == TakeLines(caller.bytes, n + 3)
          streamed == response.Writer.kind # Nil
      IN  /\ read.lines[1] =
               <<"H", "T", "T", "P", "/", "1", ".", "1", SP>> \o Itoa(response.StatusCode) \o <<SP>>
               \o StatusCodeDescriptions[response.StatusCode] \o CRLF
          /\ {read.lines[k] : k \in 2..(n + 1)} =
               {key \o <<":", SP>> \o response.Headers[key] \o CRLF :
                  key \in DOMAIN response.Headers}
          /\ read.lines[n + 2] =
               <<"C", "o", "n", "t", "e", "n", "t", "-", "L", "e", "n", "g", "t", "h", ":", SP>>
               \o Itoa(IF streamed THEN response.WriterSize ELSE Len(response.Body))
               \o CRLF
          /\ read.lines[n + 3] = CRLF
          /\ read.rest = IF streamed THEN response.Writer.data ELSE response.Body

\* A streamed response with two headers was written, its declared size not the
\* length of the stream.
C23_Witness ==
    /\ caller.pc = "written"
    /\ caller.response.Writer.kind # Nil
    /\ caller.response.WriterSize # Len(caller.response.Writer.data)
    /\ Cardinality(DOMAIN caller.response.Headers) = 2
    /\ Len(caller.bytes) > 0

\* C24: once the context is cancelled no worker receives a connection from the
\* work queue: no step taken with the context cancelled gives a connection its
\* worker.
C24_NoDequeueAfterCancel ==
    [][ctxDone => \A c \in ConnIds : conns[c].owner = 0 => conns'[c].owner = 0]_vars

\* The streams C25 names: a header line without ':', a header with an empty
\* value, a negative Content-Length and an empty path token.
StoppingStreams == {HeaderNoColon, HeaderEmptyValue, NegativeLength, EmptyPath}

\* C25: whatever bytes a connection delivers, the worker that received it ends
\* the request by closing the connection and is back in its select, and a worker
\* has left its loop only after the context was cancelled: no worker is ever
\* stopped by a panic, and nothing ends the process.
C25_NoStreamStopsWorker ==
    /\ ~crashed
    /\ \A w \in WorkerIds :
         /\ worker[w].pc # "panic"
         /\ worker[w].pc = "done" => ctxDone
         /\ (worker[w].conn # 0 /\ worker[w].stream \in StoppingStreams
             /\ worker[w].pc \notin {"parse", "route", "chain"}) =>
              /\ worker[w].pc = "idle"
              /\ conns[worker[w].conn].closes = <<w>>

\* A worker panicked on the empty path token, in FindPath, the connection open.
C25_Witness ==
    \E w \in WorkerIds :
      /\ worker[w].stream = EmptyPath
      /\ worker[w].request.kind = "HttpRequest"
      /\ worker[w].pc = "panic"
      /\ conns[worker[w].conn].closes = <<>>
      /\ crashed

\* C26: once the listener is closed, the accept goroutine eventually returns.
C26_AcceptLoopExits ==
    (listener = "closed") ~> (acceptor.pc = "done")

\* The listener is closed and the dispatcher waits for the workers, while the
\* accept goroutine holds a connection that recvQueue has no room for.
C26_Witness ==
    /\ listener = "closed"
    /\ dispatcher.pc \in {"wait", "returned"}
    /\ acceptor.pc = "send"
    /\ Len(recvQueue) = QueueCap

\* C27: both queues have capacity WorkerCount * 10 and never hold more; a producer
\* facing a full queue cannot send; and every accepted connection that no worker
\* received yet is held exactly once by the accept goroutine, recvQueue, the
\* dispatcher or queue, so none is dropped or overwritten.
C27_BoundedQueues ==
    /\ QueueCap = a.WorkerCount * 10
    /\ Len(recvQueue) <= QueueCap
    /\ Len(queue) <= QueueCap
    /\ Len(recvQueue) = QueueCap => ~ENABLED AcceptSend
    /\ Len(queue) = QueueCap => ~ENABLED DispatchSend
    /\ \A c \in 1..accepted : conns[c].owner = 0 => OnTheWay(c) = 1

\* Both queues are full, and both producers hold a connection they cannot send.
C27_Witness ==
    /\ Len(recvQueue) = QueueCap
    /\ acceptor.pc = "send"
    /\ Len(queue) = QueueCap
    /\ dispatcher.pc = "send"

\* Connection c has been forwarded to the work queue.
Forwarded(c) == Occurrences(queue, c) > 0 \/ conns[c].owner # 0

\* C28: connection ids are the acceptance order. A step that forwards a
\* connection to the work queue finds every earlier connection forwarded, and a
\* step in which a worker dequeues a connection finds every earlier connection
\* dequeued.
C28_AcceptanceOrder ==
    [][\A c1, c2 \in ConnIds :
         c1 < c2 =>
           /\ (~Forwarded(c2) /\ Forwarded(c2)') => Forwarded(c1)
           /\ (conns[c2].owner = 0 /\ conns'[c2].owner # 0) => conns[c1].owner # 0]_vars

\* Two workers serve the two connections that went through both queues in
\* acceptance order, and the later connection is finished while the earlier one
\* is still being served.
C28_Witness ==
    /\ accepted >= 2
    /\ conns[1].owner # 0
    /\ conns[2].owner # 0
    /\ conns[1].owner # conns[2].owner
    /\ conns[2].closes # <<>>
    /\ conns[1].closes = <<>>

(***************************************************************************)
(* ParseRequest on requests whose header block is given line by line       *)
(* (HeaderSpec).                                                           *)
(***************************************************************************)

MaxHeaderLines == 2

\* What follows the first ':' of the generated header lines: a plain value, a
\* value that contains ':', a value after two spaces, and a value with no space
\* before it.
RawValues ==
    {<<SP, "x">>, <<SP, "a", ":", "b">>, <<SP, SP, "y">>, <<"z", "w">>}

\* The generated header lines, without their line ending.
RawHeaderLines ==
    {key \o <<":">> \o raw : key \in {HostKey, AcceptKey}, raw \in RawValues}

\* The sequences of 1..n elements of the set S.
SeqsUpTo(S, n) == UNION {[1..k -> S] : k \in 1..n}

\* The concatenation of the lines, each followed by the line ending eol.
RECURSIVE JoinLines(_, _)
JoinLines(lines, eol) ==
    IF lines = <<>> THEN <<>> ELSE Head(lines) \o eol \o JoinLines(Tail(lines), eol)

\* The line endings a client may send.
LineEndings == {CRLF, <<LF>>}

\* A GET of /health with the given header lines, every line ended by eol, and
\* an empty line ended by blank.
RequestWithLines(lines, eol, blank) ==
    <<"G", "E", "T", SP>> \o HealthPath \o <<SP, "H", "T", "T", "P", "/", "1", ".", "1">>
    \o eol \o JoinLines(lines, eol) \o blank

HeaderInit ==
    /\ \E lines \in SeqsUpTo(RawHeaderLines, MaxHeaderLines) :
         caller = [pc |-> "send", lines |-> lines, eol |-> <<>>, blank |-> <<>>,
                   bytes |-> <<>>, parsed |-> NilPtr]
    /\ InitWith([NewInlineApplication(RequestWorkers) EXCEPT !.Routes = NewRouteCollection],
                [count |-> RequestClients, streams |-> {GetHealth}])

\* The client writes the request to its connection, with the line endings it
\* uses.
SendHeaderLines ==
    /\ caller.pc = "send"
    /\ \E eol \in LineEndings, blank \in LineEndings :
         caller' = [caller EXCEPT !.pc = "parse", !.eol = eol, !.blank = blank,
                                  !.bytes = RequestWithLines(caller.lines, eol, blank)]
    /\ UNCHANGED <<a, clients, ctxDone, listener, accepted, acceptor, recvQueue,
                   dispatcher, queue, worker, conns, crashed>>

HeaderNext == SendHeaderLines \/ CallParseRequest

HeaderSpec == HeaderInit /\ [][HeaderNext]_vars

\* The position of the first ch in s, or Len(s) + 1 when there is none.
FirstIndex(s, ch) ==
    IF \E k \in 1..Len(s) : s[k] = ch
    THEN CHOOSE k \in 1..Len(s) : s[k] = ch /\ \A j \in 1..(k - 1) : s[j] # ch
    ELSE Len(s) + 1

\* The text of a header line before its first ':'.
KeyOf(line) == SubSeq(line, 1, FirstIndex(line, ":") - 1)

\* The text of a header line after its first ':', without one leading space.
ValueOf(line) ==
    LET after == SubSeq(line, FirstIndex(line, ":") + 1, Len(line))
    IN  IF after # <<>> /\ after[1] = SP THEN Tail(after) ELSE after

\* The header mapping of a sequence of header lines: later lines replace the
\* value of earlier lines with the same key.
RECURSIVE HeadersOf(_, _)
HeadersOf(lines, headers) ==
    IF lines = <<>> THEN headers
    ELSE HeadersOf(Tail(lines), MapSet(headers, KeyOf(Head(lines)), ValueOf(Head(lines))))

\* C29: ParseRequest stores, for each header line, under the text before the
\* first ':' everything after that ':' without one leading space, a value with
\* further ':' included; of several lines with one key the last one counts.
\* (Checked on requests with '\r\n' line endings.)
C29_HeaderValueAfterFirstColon ==
    (caller.pc = "parsed" /\ caller.eol = CRLF /\ caller.blank = CRLF) =>
      /\ caller.parsed.kind = "HttpRequest"
      /\ caller.parsed.Headers = HeadersOf(caller.lines, EmptyMap)

\* 'Host: x' followed by 'Host: a:b' was parsed: the last Host line was the one
\* stored, and its value came back as 'a'.
C29_Witness ==
    /\ caller.pc = "parsed"
    /\ caller.eol = CRLF
    /\ caller.blank = CRLF
    /\ caller.lines = <<HostKey \o <<":", SP, "x">>, HostKey \o <<":", SP, "a", ":", "b">>>>
    /\ caller.parsed.kind = "HttpRequest"
    /\ caller.parsed.Headers = MapSet(EmptyMap, HostKey, <<"a">>)

\* The header lines whose value has no ':' and follows at least one space.
PlainHeaderLines ==
    {key \o <<":">> \o raw : key \in {HostKey, AcceptKey}, raw \in {<<SP, "x">>, <<SP, SP, "y">>}}

\* C30: a request with plain header lines is parsed successfully whether its
\* empty line is '\r\n' or a bare '\n', and whether its lines end in '\r\n'
\* or in '\n' alone every header value is stored complete.
C30_BareNewlineAccepted ==
    (/\ caller.pc = "parsed"
     /\ \A k \in 1..Len(caller.lines) : caller.lines[k] \in PlainHeaderLines) =>
      /\ caller.parsed.kind = "HttpRequest"
      /\ caller.parsed.Headers = HeadersOf(caller.lines, EmptyMap)

\* 'Host: x' with '\r\n' line endings and a bare '\n' as empty line was parsed,
\* and ParseRequest returned nil.
C30_Witness ==
    /\ caller.pc = "parsed"
    /\ caller.lines = <<HostKey \o <<":", SP, "x">>>>
    /\ caller.eol = CRLF
    /\ caller.blank = <<LF>>
    /\ caller.parsed.kind = "nil"

\* The paths of the requests the clients of the configuration send.
RequestedPaths ==
    {ParsedStreams[stream].Path :
       stream \in {s \in clients.streams : ParsedStreams[s].kind = "HttpRequest"}}

\* C31: while requests are served the trie is the one built before Start, and
\* FindPath(path, false) hands back the collection as it received it for every
\* requested path, found or not: nodes, children and handler bindings are the
\* same before and after every resolution, whichever worker makes it.
C31_ResolutionLeavesTrieUnchanged ==
    /\ a.Routes = RegisteredRoutes
    /\ \A path \in RequestedPaths : FindPath(a.Routes, path, FALSE).rc = a.Routes

\* Two workers have resolved paths at the same time: one found its node and is
\* in its middleware chain, the other found none and answered 404.
C31_Witness ==
    \E w1, w2 \in WorkerIds :
      /\ w1 # w2
      /\ worker[w1].pc = "chain"
      /\ FindPath(a.Routes, worker[w1].request.Path, FALSE).node # NilRoute
      /\ Served(w2)
      /\ worker[w2].request.kind = "HttpRequest"
      /\ FindPath(a.Routes, worker[w2].request.Path, FALSE).node = NilRoute
      /\ worker[w2].wire[1].StatusLine = Line404

(***************************************************************************)
(* The write loops of HttpResponse.Write on a connection that may accept   *)
(* only a part of what it is given, or fail (PartialSpec).                 *)
(***************************************************************************)

\* What Write builds in `output`: the status line, the header lines, the
\* Content-Length line and the empty line.
HeadBytes(self, order) ==
    LET written == Write(self)
    IN  written.StatusLine \o CRLF
        \o HeaderLinesInOrder(written.Headers, order)
        \o <<"C", "o", "n", "t", "e", "n", "t", "-", "L", "e", "n", "g", "t", "h", ":", SP>>
        \o written.ContentLength \o CRLF \o CRLF

\* The responses written: with and without a body in memory.
PartialResponses ==
    {SetStatus(StringResponse(body), status) :
       status \in {StatusOK, StatusNotFound},
       body \in {<<>>, Slice(BodyBytes, 0, MaxBody)}}

\* Write has built `value` and is about to enter its first loop.
PartialInit ==
    /\ \E response \in PartialResponses :
         \E order \in Orders(DOMAIN response.Headers) :
           caller = [pc |-> "head", response |-> response,
                     value |-> HeadBytes(response, order), write |-> 0,
                     sent |-> <<>>, failed |-> "no"]
    /\ InitWith([NewInlineApplication(RequestWorkers) EXCEPT !.Routes = NewRouteCollection],
                [count |-> RequestClients, streams |-> {GetHealth}])

\* Mutant of Unwritten: every call passes the bytes from the first one on.
UnwrittenFromStart(bytes, write) == bytes

\* value[write:] and self.Body[write:]
Unwritten(bytes, write) == SubSeq(bytes, write + 1, Len(bytes))

\* What the loop does with the result of n, err := stream.Write(p) when `bytes`
\* is what it writes: it returns on an error, goes on while write < len(bytes),
\* and leaves the loop for `after` otherwise.
LoopTurn(bytes, p, n, err, after) ==
    IF err
    THEN [caller EXCEPT !.sent = @ \o SubSeq(p, 1, n), !.failed = caller.pc,
                        !.pc = "returned"]
    ELSE IF caller.write + n < Len(bytes)
    THEN [caller EXCEPT !.sent = @ \o SubSeq(p, 1, n), !.write = @ + n]
    ELSE [caller EXCEPT !.sent = @ \o SubSeq(p, 1, n), !.write = 0, !.pc = after]

\* One turn of `for write < len(value)`: the connection takes the first n bytes
\* of value[write:], at least one unless it fails.
WriteHeadTurn ==
    /\ caller.pc = "head"
    /\ LET p == Unwritten(caller.value, caller.write)
       IN  \E n \in 0..Len(p), err \in BOOLEAN :
             /\ err \/ n >= 1
             /\ caller' = LoopTurn(caller.value, p, n, err,
                                   IF caller.response.Body = <<>> THEN "returned"
                                   ELSE "body")
    /\ UNCHANGED <<a, clients, ctxDone, listener, accepted, acceptor, recvQueue,
                   dispatcher, queue, worker, conns, crashed>>

\* One turn of `for write < len(self.Body)`.
WriteBodyTurn ==
    /\ caller.pc = "body"
    /\ LET p == Unwritten(caller.response.Body, caller.write)
       IN  \E n \in 0..Len(p), err \in BOOLEAN :
             /\ err \/ n >= 1
             /\ caller' = LoopTurn(caller.response.Body, p, n, err, "returned")
    /\ UNCHANGED <<a, clients, ctxDone, listener, accepted, acceptor, recvQueue,
                   dispatcher, queue, worker, conns, crashed>>

PartialNext == WriteHeadTurn \/ WriteBodyTurn

PartialSpec == PartialInit /\ [][PartialNext]_vars

\* C32: what the connection accepted is a prefix of head followed by body, and
\* while no call failed it is exactly the bytes before the loop's position, so
\* no byte is repeated or skipped; after the first failed call Write has returned
\* (no further call is made); a failure in the head leaves no body byte written;
\* and a Write that returns without a failure has written head and body in full.
C32_PartialWritesResume ==
    LET all == caller.value \o caller.response.Body
    IN  /\ Len(caller.sent) <= Len(all)
        /\ caller.sent = SubSeq(all, 1, Len(caller.sent))
        /\ (caller.failed = "no" /\ caller.pc = "head") => Len(caller.sent) = caller.write
        /\ (caller.failed = "no" /\ caller.pc = "body") =>
             Len(caller.sent) = Len(caller.value) + caller.write
        /\ caller.failed # "no" => caller.pc = "returned"
        /\ caller.failed = "head" => Len(caller.sent) <= Len(caller.value)
        /\ (caller.failed = "no" /\ caller.pc = "returned") => caller.sent = all

\* The head went out in full, and the body loop failed after the connection
\* took a part of the body.
C32_Witness ==
    /\ caller.pc = "returned"
    /\ caller.failed = "body"
    /\ Len(caller.sent) > Len(caller.value)
    /\ Len(caller.sent) < Len(caller.value) + Len(caller.response.Body)

\* C33: within one request the calls are the middleware of the route in the
\* order of its list, each once, then the handler; every call received the
\* request of the connection; and every call found in the state what the call
\* before it left there, so the write of the middleware auth is seen by every
\* later middleware and by the handler.
C33_ChainSharesRequestAndState ==
    \A w \in WorkerIds :
      LET me == worker[w]
      IN  \A k \in 1..Len(me.calls) :
            LET call == me.calls[k]
            IN  /\ call.index = k - 1
                /\ call.fn = IF k <= Len(me.handler.Middleware)
                             THEN me.handler.Middleware[k]
                             ELSE me.handler.Handler
                /\ call.kind = IF k <= Len(me.handler.Middleware)
                               THEN "middleware" ELSE "handler"
                /\ call.request = me.request
                /\ call.state = IF k = 1 THEN 0
                                ELSE IF me.calls[k - 1].fn = "auth" THEN me.conn
                                ELSE me.calls[k - 1].state

\* A request went through two middleware and its handler: the second middleware
\* and the handler found the identity the first one stored.
C33_Witness ==
    \E w \in WorkerIds :
      /\ Len(worker[w].calls) = 3
      /\ worker[w].calls[1].fn = "auth"
      /\ worker[w].calls[1].state = 0
      /\ worker[w].calls[2].kind = "middleware"
      /\ worker[w].calls[2].state = worker[w].conn
      /\ worker[w].calls[3].kind = "handler"
      /\ worker[w].calls[3].state = worker[w].conn

(***************************************************************************)
(* HttpBuf: a buffer in front of a connection (BufSpec). The connection    *)
(* delivers its bytes packet by packet and then reports EOF.               *)
(***************************************************************************)

BUFFER_SIZE == 1024

MaxCalls == 2

MaxCount == 3

\* The zero byte of a fresh make([]byte, n).
NUL == "NUL"

Zeros(n) == SubSeq([k \in 1..n |-> NUL], 1, n)

\* b > 32, for the bytes that occur.
Graphic(b) == b \notin {NUL, SP, CR, LF}

\* The least i >= from (0-based) with s[i] among `bytes`, or -1.
IndexOfAny(s, from, bytes) ==
    LET at == {i \in from..(Len(s) - 1) : s[i + 1] \in bytes}
    IN  IF at = {} THEN -1 ELSE CHOOSE i \in at : \A j \in at : i <= j

\* The least i (0-based) with s[i] > 32, or -1.
IndexOfGraphic(s) ==
    LET at == {i \in 0..(Len(s) - 1) : Graphic(s[i + 1])}
    IN  IF at = {} THEN -1 ELSE CHOOSE i \in at : \A j \in at : i <= j

\* (*buf.con).Read(next_read) with len(next_read) = BUFFER_SIZE: the bytes of the
\* first waiting packet that fit, and what the connection holds afterwards; no
\* byte at EOF.
ConnRead(incoming) ==
    IF incoming = <<>> THEN [read |-> <<>>, incoming |-> <<>>]
    ELSE LET packet == Head(incoming)
             size   == IF Len(packet) < BUFFER_SIZE THEN Len(packet) ELSE BUFFER_SIZE
         IN  [read     |-> SubSeq(packet, 1, size),
              incoming |-> IF size = Len(packet) THEN Tail(incoming)
                           ELSE <<SubSeq(packet, size + 1, Len(packet))>>
                                \o Tail(incoming)]

\* BufferIn: next_read is BUFFER_SIZE zero bytes of which Read fills the first
\* `size`; all of next_read is appended; size is returned.
BufferIn(buffer, read) ==
    [buffer |-> buffer \o read \o Zeros(BUFFER_SIZE - Len(read)), size |-> Len(read)]

\* NewBuf
NewBuf == <<>>

\* The local variables of an operation before its loop.
NoLocals == [start |-> -1, path |-> <<>>, query |-> <<>>]

\* One pass of an operation over the buffer. "return": the operation returns
\* `result`; "refill": it calls BufferIn next; "again": it goes round its loop
\* without calling BufferIn.
Pass(outcome, result, buffer, locals) ==
    [outcome |-> outcome, result |-> result, buffer |-> buffer, locals |-> locals]

\* ReadUntilKeep(delim): the inner loop.
ReadUntilKeep(buffer, delim, locals) ==
    LET i == IndexOfAny(buffer, 0, {delim})
    IN  IF i >= 0
        THEN Pass("return", Slice(buffer, 0, i), Slice(buffer, i + 1, Len(buffer)), locals)
        ELSE Pass("refill", <<>>, buffer, locals)

\* ReadUntil(delim): the inner loop.
ReadUntil(buffer, delim, locals) ==
    LET i == IndexOfAny(buffer, 0, {delim})
    IN  IF i >= 0
        THEN Pass("return", Slice(buffer, 0, i), Slice(buffer, i + 1, Len(buffer)), locals)
        ELSE Pass("refill", <<>>, buffer, locals)

\* ShiftThrough(delim): the inner loop.
ShiftThrough(buffer, delim, locals) ==
    LET i == IndexOfAny(buffer, 0, {delim})
    IN  IF i >= 0
        THEN Pass("return", <<>>, Slice(buffer, i + 1, Len(buffer)), locals)
        ELSE Pass("refill", <<>>, buffer, locals)

\* ReadPath: the inner loop from index `from` on, over the buffer that starts at
\* index `base` of `buffer`. After a '?' the buffer is cut behind it and the scan
\* goes on at index 1.
RECURSIVE ReadPathLoop(_, _, _, _)
ReadPathLoop(buffer, base, from, locals) ==
    LET i == IndexOfAny(buffer, base + from, {"?", SP})
    IN  IF i < 0 THEN Pass("refill", <<>>, Slice(buffer, base, Len(buffer)), locals)
        ELSE IF buffer[i + 1] = "?"
        THEN ReadPathLoop(buffer, i + 1, 1, [locals EXCEPT !.path = Slice(buffer, base, i)])
        ELSE IF locals.path = <<>>
        THEN Pass("return", [path |-> Slice(buffer, base, i), query |-> locals.query],
                  Slice(buffer, base, Len(buffer)), locals)
        ELSE Pass("return", [path |-> locals.path, query |-> Slice(buffer, base, i)],
                  Slice(buffer, base, Len(buffer)), locals)

ReadPath(buffer, locals) == ReadPathLoop(buffer, 0, 0, locals)

\* ReadHeaderKey: one turn of the loop up to the call of BufferIn.
ReadHeaderKey(buffer, locals) ==
    LET start == IF locals.start = -1 THEN IndexOfGraphic(buffer) ELSE locals.start
        i     == IF start > -1 THEN IndexOfAny(buffer, start, {":"}) ELSE -1
    IN  IF i >= 0
        THEN Pass("return", Slice(buffer, start, i), Slice(buffer, i + 1, Len(buffer)),
                  [locals EXCEPT !.start = start])
        ELSE Pass("refill", <<>>, buffer, [locals EXCEPT !.start = start])

\* ReadLine: one turn of the loop. While start is -1 the turn ends in `continue`.
ReadLine(buffer, locals) ==
    IF locals.start = -1
    THEN Pass("again", <<>>, buffer, [locals EXCEPT !.start = IndexOfGraphic(buffer)])
    ELSE LET i == IndexOfAny(buffer, locals.start, {LF, CR})
         IN  IF i >= 0
             THEN Pass("return", Slice(buffer, locals.start, i),
                       Slice(buffer, i, Len(buffer)), locals)
             ELSE Pass("refill", <<>>, buffer, locals)

\* ShiftThroughWhitespace: the inner loop.
ShiftThroughWhitespace(buffer, locals) ==
    LET i == IndexOfGraphic(buffer)
    IN  IF i >= 0 THEN Pass("return", <<>>, Slice(buffer, i, Len(buffer)), locals)
        ELSE Pass("refill", <<>>, buffer, locals)

\* buf.buffer[:count]: beyond the length of the slice the expression panics or
\* yields what the backing array holds.
UpTo(buffer, count) ==
    IF count <= Len(buffer) THEN Slice(buffer, 0, count) ELSE <<Panic>>

\* ReadExact(count): the loop condition.
ReadExact(buffer, count, locals) ==
    IF Len(buffer) < count THEN Pass("refill", <<>>, buffer, locals)
    ELSE Pass("return", UpTo(buffer, count), buffer, locals)

\* The operations a caller invokes, with their arguments.
Operations ==
    {[name |-> name, arg |-> delim] :
       name \in {"ReadUntilKeep", "ReadUntil", "ShiftThrough"}, delim \in {":", SP}}
    \cup {[name |-> name, arg |-> 0] :
            name \in {"ReadPath", "ReadHeaderKey", "ReadLine", "ShiftThroughWhitespace"}}
    \cup {[name |-> "ReadExact", arg |-> count] : count \in 1..MaxCount}

\* One pass of operation op.
PassOf(op, buffer, locals) ==
    IF op.name = "ReadUntilKeep" THEN ReadUntilKeep(buffer, op.arg, locals)
    ELSE IF op.name = "ReadUntil" THEN ReadUntil(buffer, op.arg, locals)
    ELSE IF op.name = "ShiftThrough" THEN ShiftThrough(buffer, op.arg, locals)
    ELSE IF op.name = "ReadPath" THEN ReadPath(buffer, locals)
    ELSE IF op.name = "ReadHeaderKey" THEN ReadHeaderKey(buffer, locals)
    ELSE IF op.name = "ReadLine" THEN ReadLine(buffer, locals)
    ELSE IF op.name = "ShiftThroughWhitespace" THEN ShiftThroughWhitespace(buffer, locals)
    ELSE ReadExact(buffer, op.arg, locals)

\* What operation op returns when BufferIn returned 0.
AtEOF(op, buffer) ==
    IF op.name = "ReadExact" THEN UpTo(buffer, op.arg)
    ELSE IF op.name = "ReadPath" THEN [path |-> <<>>, query |-> <<>>]
    ELSE <<>>

\* One more byte than a call of Read takes.
LongPacket == SubSeq([k \in 1..(BUFFER_SIZE + 1) |-> "a"], 1, BUFFER_SIZE + 1)

\* What the connections deliver, packet by packet.
Deliveries ==
    {<<>>,
     <<<<SP, LF>>>>,
     <<<<"k", ":", SP, "v", LF>>>>,
     <<<<"/", "p">>, <<"?", "q", SP, "x", CR, LF>>>>,
     <<<<"a", "b">>, <<"c", "d">>>>,
     <<LongPacket>>}

\* All bytes of a sequence of packets.
RECURSIVE Flatten(_)
Flatten(packets) ==
    IF packets = <<>> THEN <<>> ELSE Head(packets) \o Flatten(Tail(packets))

BufInit ==
    /\ \E incoming \in Deliveries :
         caller = [pc |-> "idle", buffer |-> NewBuf, incoming |-> incoming,
                   stream |-> Flatten(incoming), op |-> [name |-> "none", arg |-> 0],
                   locals |-> NoLocals, result |-> <<>>, calls |-> 0,
                   fresh |-> FALSE, before |-> <<>>, read |-> <<>>, size |-> 0,
                   spinning |-> FALSE]
    /\ InitWith([NewInlineApplication(RequestWorkers) EXCEPT !.Routes = NewRouteCollection],
                [count |-> RequestClients, streams |-> {GetHealth}])

\* The caller invokes an operation of the buffer.
CallOperation ==
    /\ caller.pc = "idle"
    /\ caller.calls < MaxCalls
    /\ \E op \in Operations :
         caller' = [caller EXCEPT !.pc = "pass", !.op = op, !.locals = NoLocals,
                                  !.result = <<>>, !.calls = @ + 1, !.fresh = FALSE]
    /\ UNCHANGED <<a, clients, ctxDone, listener, accepted, acceptor, recvQueue,
                   dispatcher, queue, worker, conns, crashed>>

\* The operation goes over the buffer once.
OperationPass ==
    /\ caller.pc = "pass"
    /\ LET pass == PassOf(caller.op, caller.buffer, caller.locals)
       IN  caller' = [caller EXCEPT
                        !.pc = IF pass.outcome = "return" THEN "idle"
                               ELSE IF pass.outcome = "refill" THEN "refill"
                               ELSE "pass",
                        !.buffer = pass.buffer,
                        !.locals = pass.locals,
                        !.result = pass.result,
                        !.fresh = FALSE,
                        !.spinning = pass.outcome = "again"
                                     /\ pass.locals = caller.locals]
    /\ UNCHANGED <<a, clients, ctxDone, listener, accepted, acceptor, recvQueue,
                   dispatcher, queue, worker, conns, crashed>>

\* if buf.BufferIn() == 0 { return ... }
OperationRefill ==
    /\ caller.pc = "refill"
    /\ LET got    == ConnRead(caller.incoming)
           filled == BufferIn(caller.buffer, got.read)
       IN  caller' = [caller EXCEPT
                        !.pc = IF filled.size = 0 THEN "idle" ELSE "pass",
                        !.incoming = got.incoming,
                        !.before = caller.buffer,
                        !.read = got.read,
                        !.size = filled.size,
                        !.fresh = TRUE,
                        !.buffer = filled.buffer,
                        !.result = IF filled.size = 0
                                   THEN AtEOF(caller.op, filled.buffer) ELSE @]
    /\ UNCHANGED <<a, clients, ctxDone, listener, accepted, acceptor, recvQueue,
                   dispatcher, queue, worker, conns, crashed>>

BufNext == CallOperation \/ OperationPass \/ OperationRefill

\* An operation that has been called keeps running, and a Read on the connection
\* returns: with bytes, or at EOF.
BufFairness == WF_vars(OperationPass) /\ WF_vars(OperationRefill)

BufSpec == BufInit /\ [][BufNext]_vars /\ BufFairness

\* C34: right after BufferIn, at most BUFFER_SIZE bytes were read, the buffer is
\* what it was followed by exactly the bytes read, it grew by the returned count,
\* and a returned 0 left it unchanged.
C34_BufferInAppendsWhatWasRead ==
    caller.fresh =>
      /\ caller.size <= BUFFER_SIZE
      /\ caller.size = Len(caller.read)
      /\ caller.buffer = caller.before \o caller.read
      /\ Len(caller.buffer) = Len(caller.before) + caller.size
      /\ caller.size = 0 => caller.buffer = caller.before

\* BufferIn read the two bytes of a packet into an empty buffer, which now holds
\* BUFFER_SIZE bytes.
C34_Witness ==
    /\ caller.fresh
    /\ caller.before = <<>>
    /\ caller.read = <<"a", "b">>
    /\ caller.size = 2
    /\ Len(caller.buffer) = BUFFER_SIZE

\* C35: ReadExact(n) on a new buffer returns the first n bytes of what the
\* connection delivers when it delivers at least n, and else all it delivers,
\* fewer than n bytes; it does not fail.
C35_ReadExactReturnsReceivedBytes ==
    (/\ caller.pc = "idle"
     /\ caller.calls = 1
     /\ caller.op.name = "ReadExact") =>
      caller.result = IF Len(caller.stream) >= caller.op.arg
                      THEN SubSeq(caller.stream, 1, caller.op.arg)
                      ELSE caller.stream

\* ReadExact(3) returned on a connection that delivers 'ab' and then 'cd': the
\* result is 'ab' and a zero byte.
C35_Witness ==
    /\ caller.pc = "idle"
    /\ caller.calls = 1
    /\ caller.op = [name |-> "ReadExact", arg |-> 3]
    /\ caller.stream = <<"a", "b", "c", "d">>
    /\ caller.result = <<"a", "b", NUL>>

\* C39: an operation that runs on a connection at EOF returns.
C39_ScansTerminateAtEOF ==
    (caller.pc # "idle" /\ caller.incoming = <<>>) ~> (caller.pc = "idle")

\* ReadLine goes round its loop on an empty buffer without calling BufferIn.
C39_Witness ==
    /\ caller.op.name = "ReadLine"
    /\ caller.pc = "pass"
    /\ caller.spinning
    /\ caller.buffer = <<>>
    /\ caller.incoming = <<>>

\* C36: when Start has returned, every connection Accept returned has been
\* closed, so none is left open in recvQueue, in queue, or with the accept
\* goroutine or the dispatcher.
C36_NoOpenConnectionAfterStart ==
    dispatcher.pc = "returned" =>
      \A c \in 1..accepted :
        /\ conns[c].closes # <<>>
        /\ OnTheWay(c) = 0

\* Start has returned while a connection that was accepted waits in the work
\* queue, never received by a worker and never closed.
C36_Witness ==
    /\ dispatcher.pc = "returned"
    /\ queue # <<>>
    /\ conns[Head(queue)].owner = 0
    /\ conns[Head(queue)].closes = <<>>

DistinctComponents(nodes, list) ==
    \A i, j \in 1..Len(list) :
      i # j => nodes[list[i]].PathComponent # nodes[list[j]].PathComponent

\* The non-empty prefixes of the segment lists of the registered paths.
RegisteredPrefixes ==
    UNION {LET comps == PathListFromString(caller.log[k].path).comps
           IN  {SubSeq(comps, 1, n) : n \in 1..Len(comps)} :
             k \in 1..Len(caller.log)}

\* C38: after any sequence of registrations no two root nodes and no two
\* children of one node have the same PathComponent, and the trie has one node
\* for each prefix of a registered path and no more: registering a path whose
\* nodes exist adds none.
C38_TrieNodesUnique ==
    LET rc == a.Routes
    IN  /\ DistinctComponents(rc.nodes, rc.Routes)
        /\ \A node \in 1..Len(rc.nodes) :
             DistinctComponents(rc.nodes, rc.nodes[node].Children)
        /\ Len(rc.nodes) = Cardinality(RegisteredPrefixes)

\* /users, /users/:id and /users again were registered, the last with another
\* method: the trie has two nodes, and the node of /users has both methods.
C38_Witness ==
    /\ Len(caller.log) = 3
    /\ caller.log[1].path = UsersPath
    /\ caller.log[2].path = UsersIdPath
    /\ caller.log[3].path = UsersPath
    /\ caller.log[1].method # caller.log[3].method
    /\ Len(a.Routes.nodes) = 2
    /\ Cardinality(DOMAIN a.Routes.nodes[1].Handlers) = 2

=============================================================================
